---- MODULE Spec2Model ----
(***************************************************************************)
(* SilverSprint: the telemetry parser (SprintParser), the readiness scorer *)
(* (SilverSprintLogic, isStaleVmax), the race estimator (RaceEstimator),   *)
(* the workout generator (SprintWorkoutGenerator) and the strength         *)
(* prescription (StrengthPeriodization).                                   *)
(*                                                                         *)
(* The operations are pure static functions.  Each becomes an operator,    *)
(* computed step by step as its code computes it; a behaviour of Spec is   *)
(* one call: Init draws the operation and its arguments, the operation's   *)
(* action applies it and stores what it returns.                           *)
(*                                                                         *)
(* Numbers.  The code computes in IEEE doubles; the model computes the     *)
(* same expressions exactly, on scaled integers:                           *)
(*   velocity samples, vMax, raw burst distance   1/1000  (mm/s, mm)       *)
(*   flyingVelocity                               1/6000  m/s              *)
(*   emitted interval distance                    1       m                *)
(*   fatigue index (NFI)                          1/10000                  *)
(*   training stress balance (TSB)                1/10                     *)
(*   HRV readings                                 1       ms               *)
(*   sub-scores of the recovery score             rationals <<num, den>>   *)
(* 1/6000 holds both the unrounded mean of 1, 2 or 3 samples and a value   *)
(* rounded to 2 decimals.  Rounding error of the doubles themselves is not *)
(* modelled.  The race estimator alone computes in fixed point, with       *)
(* rounding; its section says how.                                         *)
(***************************************************************************)
EXTENDS Integers, Sequences, FiniteSets, TLC

\* one call of a pure operation
VARIABLES op, args, ret, pc

\* one run of the webhook handler: the request, the response sent, the fetch
\* calls issued so far (each with the reply it got), the handler's locals and
\* the await it stands at
VARIABLES req, res, fetches, locals, hpc

\* the two guided timers of the recovery screen: the React state of each, and
\* for each the seconds counted so far in the step on display and the last
\* step that was counted to its end
VARIABLES hydroStep, hydroCycle, hydroTimerSec, hydroRunning,
          breathPhase, breathCycle, breathTimerSec, breathRunning,
          hydroCounted, hydroLasted, breathCounted, breathLasted

\* the dashboard's data hook: the build mode, the credentials held by the
\* application, the state the hook exposes, and the syncs started so far,
\* each with the athlete it was started for and the await it stands at
VARIABLES dev, auth, data, syncs

\* a caller of the planner and of the strength prescriptions that keeps what
\* it was returned: the contents of the static objects a result can share,
\* the references the caller holds, the calls made so far with their
\* results, and the writes made through held references
VARIABLES statics, held, results, mutations

callVars == <<op, args, ret, pc>>

webhookVars == <<req, res, fetches, locals, hpc>>

hydroVars ==
    <<hydroStep, hydroCycle, hydroTimerSec, hydroRunning, hydroCounted,
      hydroLasted>>

breathVars ==
    <<breathPhase, breathCycle, breathTimerSec, breathRunning, breathCounted,
      breathLasted>>

timerVars == <<hydroVars, breathVars>>

syncVars == <<dev, auth, data, syncs>>

heapVars == <<statics, held, results, mutations>>

vars == <<callVars, webhookVars, timerVars, syncVars, heapVars>>

OutsideCall == <<webhookVars, timerVars, syncVars, heapVars>>

OutsideWebhook == <<callVars, timerVars, syncVars, heapVars>>

OutsideTimers == <<callVars, webhookVars, syncVars, heapVars>>

OutsideSync == <<callVars, webhookVars, timerVars, heapVars>>

OutsideHeap == <<callVars, webhookVars, timerVars, syncVars>>

\* Each specification runs one part of the program; the variables of the
\* other parts stay at these values.
NoCall == op = "none" /\ args = <<>> /\ ret = 0 /\ pc = "none"

NoWebhook ==
    req = <<>> /\ res = <<>> /\ fetches = <<>> /\ locals = <<>> /\ hpc = "none"

\* the recovery screen as mounted: the useState initial values
TimersMounted ==
    /\ hydroStep = 0 /\ hydroCycle = 0
    /\ hydroTimerSec = [type |-> "null"] /\ hydroRunning = FALSE
    /\ breathPhase = 0 /\ breathCycle = 0
    /\ breathTimerSec = [type |-> "null"] /\ breathRunning = FALSE
    /\ hydroCounted = 0 /\ hydroLasted = <<>>
    /\ breathCounted = 0 /\ breathLasted = <<>>

\* the hook's state before any sync has answered: the useState initial value,
\* by the fields followed here (whose data it holds, loading, error)
InitialData ==
    [of |-> "", loading |-> TRUE, error |-> [type |-> "null"]]

\* the application at the sign-in gate, nothing fetched
SignedOut ==
    /\ dev = FALSE
    /\ auth = [type |-> "null"]
    /\ data = InitialData
    /\ syncs = <<>>

\* the variables that a call leaves alone
CallFrame == UNCHANGED OutsideCall

(***************************************************************************)
(* Bounds of the model.                                                    *)
(***************************************************************************)
\* longest velocity stream drawn
MaxLen == 4

\* Velocity samples drawn (mm/s): standing, just below and exactly at the
\* moving threshold, and moving samples whose sums fall on both sides of
\* every distance band and of the minimum rep distance.
Samples == {0, 999, 1000, 3334, 10006, 10100, 40200, 75200}

RECURSIVE SeqsUpTo(_, _)
SeqsUpTo(S, n) ==
    IF n = 0 THEN {<<>>}
    ELSE LET shorter == SeqsUpTo(S, n - 1)
         IN  shorter \cup {Append(s, x) : s \in {t \in shorter : Len(t) = n - 1}, x \in S}

Streams == SeqsUpTo(Samples, MaxLen)

(***************************************************************************)
(* JavaScript built-ins used by the code.                                  *)
(***************************************************************************)
\* Math.round(num / den), den > 0: the nearest integer, a tie going up.
MathRound(num, den) == (2 * num + den) \div (2 * den)

\* x.toFixed(k) read back by parseFloat, for x = num / den with den > 0, in
\* units of 1/scale (scale = 10^k): nearest, a tie going away from zero.
ToFixed(num, den, scale) ==
    IF num >= 0 THEN (2 * num * scale + den) \div (2 * den)
    ELSE -((2 * (-num) * scale + den) \div (2 * den))

\* Array.prototype.reduce((a, b) => a + b, 0)
RECURSIVE SumSeq(_)
SumSeq(s) == IF s = <<>> THEN 0 ELSE s[1] + SumSeq(Tail(s))

\* Math.max(...burst) of a non-empty array
RECURSIVE MaxSeq(_)
MaxSeq(s) ==
    IF Len(s) = 1 THEN s[1]
    ELSE LET m == MaxSeq(Tail(s)) IN IF s[1] > m THEN s[1] ELSE m

Min2(a, b) == IF a < b THEN a ELSE b
Max2(a, b) == IF a > b THEN a ELSE b

(***************************************************************************)
(* SprintParser                                                            *)
(***************************************************************************)
\* 1.0 m/s
MOVING_THRESHOLD == 1000
\* 10 m
MIN_REP_DISTANCE == 10000

\* classifyBurst's null
NULL == [type |-> "null"]

\* classifyType(distance): distance is the raw sample sum, in mm.
classifyType(distance) ==
    IF distance <= 40000 THEN "Acceleration"
    ELSE IF distance <= 80000 THEN "MaxVelocity"
    ELSE IF distance <= 150000 THEN "SpeedEndurance"
    ELSE "SpecialEndurance"

\* The for loop of computeFlyingVelocity from index i (0-based).  bestSum is
\* bestAvg * windowSize: the averages are compared through the window sums.
RECURSIVE FlyingLoop(_, _, _, _)
FlyingLoop(burst, windowSize, i, bestSum) ==
    IF i > Len(burst) - windowSize THEN bestSum
    ELSE LET windowSum == SumSeq(SubSeq(burst, i + 1, i + windowSize))
         IN  FlyingLoop(burst, windowSize, i + 1,
                        IF windowSum > bestSum THEN windowSum ELSE bestSum)

\* computeFlyingVelocity(burst), in 1/6000 m/s.  The short path returns the
\* plain mean; only the sliding-window path goes through toFixed(2).
computeFlyingVelocity(burst) ==
    IF Len(burst) = 0 THEN 0
    ELSE IF Len(burst) <= 3 THEN (SumSeq(burst) * 6) \div Len(burst)
    ELSE LET windowSize == Min2(3, Len(burst))
             bestSum == FlyingLoop(burst, windowSize, 0, 0)
         IN  ToFixed(bestSum, 1000 * windowSize, 100) * 60

\* classifyBurst as it would be without the minimum-rep test: C2 rests on
\* that test.
classifyBurst_NoMinimum(burst) ==
    LET distance == SumSeq(burst)
    IN  [type           |-> classifyType(distance),
         distance       |-> MathRound(distance, 1000),
         vMax           |-> MaxSeq(burst),
         duration       |-> Len(burst),
         flyingVelocity |-> computeFlyingVelocity(burst)]

\* classifyBurst(burst)
classifyBurst(burst) ==
    LET distance == SumSeq(burst)
    IN  IF distance < MIN_REP_DISTANCE THEN NULL
        ELSE [type           |-> classifyType(distance),
              distance       |-> MathRound(distance, 1000),
              vMax           |-> MaxSeq(burst),
              duration       |-> Len(burst),
              flyingVelocity |-> computeFlyingVelocity(burst)]

\* The loop as it would be with the bound i < length: a burst still open at
\* the end of the stream is never closed.  C4 rests on the extra iteration.
RECURSIVE ParseLoop_DropsOpenBurst(_, _, _, _)
ParseLoop_DropsOpenBurst(stream, i, currentBurst, intervals) ==
    IF i >= Len(stream) THEN intervals
    ELSE LET v == stream[i + 1]
         IN  IF v >= MOVING_THRESHOLD
             THEN ParseLoop_DropsOpenBurst(stream, i + 1,
                                           Append(currentBurst, v), intervals)
             ELSE IF Len(currentBurst) > 0
             THEN LET interval == classifyBurst(currentBurst)
                  IN  ParseLoop_DropsOpenBurst(stream, i + 1, <<>>,
                          IF interval # NULL THEN Append(intervals, interval)
                          ELSE intervals)
             ELSE ParseLoop_DropsOpenBurst(stream, i + 1, currentBurst, intervals)

\* The for loop of parseTrackSession from index i (0-based), i <= length.
RECURSIVE ParseLoop(_, _, _, _)
ParseLoop(stream, i, currentBurst, intervals) ==
    IF i > Len(stream) THEN intervals
    ELSE LET v == IF i < Len(stream) THEN stream[i + 1] ELSE 0
         IN  IF v >= MOVING_THRESHOLD
             THEN ParseLoop(stream, i + 1, Append(currentBurst, v), intervals)
             ELSE IF Len(currentBurst) > 0
             THEN LET interval == classifyBurst(currentBurst)
                  IN  ParseLoop(stream, i + 1, <<>>,
                                IF interval # NULL THEN Append(intervals, interval)
                                ELSE intervals)
             ELSE ParseLoop(stream, i + 1, currentBurst, intervals)

\* parseTrackSession(activity): activity is a record that may lack the
\* velocity_smooth field.
parseTrackSession(activity) ==
    LET stream == IF "velocity_smooth" \in DOMAIN activity
                  THEN activity.velocity_smooth ELSE <<>>
    IN  ParseLoop(stream, 0, <<>>, <<>>)

Activities ==
    {[id |-> 1]} \cup {[id |-> 1, velocity_smooth |-> s] : s \in Streams}

(***************************************************************************)
(* SilverSprintLogic and isStaleVmax                                       *)
(***************************************************************************)
RECOVERY_BASE_HOURS == 48
RECOVERY_AGE_HOURS_PER_YEAR == 6
RECOVERY_SRS_MAX_PENALTY_HOURS == 48

\* The clamp as it would be without Math.min(100, ...): C5 rests on the
\* ceiling.
Clamp100_NoCeiling(num, den) == <<IF num > 0 THEN num ELSE 0, den>>

\* Math.min(100, Math.max(0, num / den)), den > 0, as a rational <<num, den>>
Clamp100(num, den) ==
    LET lower == IF num > 0 THEN num ELSE 0
    IN  <<IF lower < 100 * den THEN lower ELSE 100 * den, den>>

\* calculateNFI as it would be with the guard avgVmax !== 0: C6 rests on
\* the guard rejecting negative baselines too.
calculateNFI_GuardsOnlyZero(currentVmax, avgVmax) ==
    IF avgVmax # 0
    THEN (IF avgVmax > 0 THEN ToFixed(currentVmax, avgVmax, 1000)
          ELSE ToFixed(-currentVmax, -avgVmax, 1000)) * 10
    ELSE 10000

\* calculateNFI(currentVmax, avgVmax): velocities in mm/s, result in 1/10000
\* (toFixed(3) leaves thousandths).
calculateNFI(currentVmax, avgVmax) ==
    IF avgVmax > 0 THEN ToFixed(currentVmax, avgVmax, 1000) * 10 ELSE 10000

\* hrvRatio of calculateSRS, as a rational <<num, den>>
hrvRatio(hrv) ==
    IF hrv.avgHRV7d > 0 THEN <<hrv.currentHRV, hrv.avgHRV7d>> ELSE <<1, 1>>

\* hrvScore = clamp((hrvRatio - 0.75) / 0.30 * 100)
\*          = clamp((4 rn - 3 rd) * 250 / (3 rd))
hrvScore(hrv) ==
    LET r == hrvRatio(hrv)
    IN  Clamp100((4 * r[1] - 3 * r[2]) * 250, 3 * r[2])

\* tsbScore = clamp((tsb + 20) / 40 * 100), tsb in tenths: (tsb + 200) / 4
tsbScore(tsb) == Clamp100(tsb + 200, 4)

\* nfiScore = clamp((nfi - 0.90) / 0.10 * 100), nfi in 1/10000: (nfi - 9000) / 10
nfiScore(nfi) == Clamp100(nfi - 9000, 10)

\* calculateSRS(hrv, tsb, nfi) = Math.round(0.45 h + 0.30 t + 0.25 f)
calculateSRS(hrv, tsb, nfi) ==
    LET h == hrvScore(hrv)
        t == tsbScore(tsb)
        f == nfiScore(nfi)
    IN  MathRound(45 * h[1] * t[2] * f[2] + 30 * t[1] * h[2] * f[2]
                    + 25 * f[1] * h[2] * t[2],
                  100 * h[2] * t[2] * f[2])

\* getRecoveryWindow as it would be with the penalty srs / 100 * 48: C11
\* rests on the penalty falling as the score rises.
getRecoveryWindow_PenaltyGrowsWithSRS(age, srs) ==
    LET ageTaxBase == RECOVERY_BASE_HOURS
                        + Max2(0, (age - 40) * RECOVERY_AGE_HOURS_PER_YEAR)
    IN  ageTaxBase + MathRound(srs * RECOVERY_SRS_MAX_PENALTY_HOURS, 100)

\* getRecoveryWindow(age, srs), hours
getRecoveryWindow(age, srs) ==
    LET ageTaxBase == RECOVERY_BASE_HOURS
                        + Max2(0, (age - 40) * RECOVERY_AGE_HOURS_PER_YEAR)
    IN  ageTaxBase + MathRound((100 - srs) * RECOVERY_SRS_MAX_PENALTY_HOURS, 100)

\* getNFIStatus as it would be with nfi >= 0.97 for green: C7 rests on the
\* strict comparison.
getNFIStatus_GreenFrom97(nfi) ==
    IF nfi >= 9700 THEN "green"
    ELSE IF nfi >= 9400 THEN "amber"
    ELSE "red"

\* getNFIStatus(nfi): 0.97 is 9700, 0.94 is 9400
getNFIStatus(nfi) ==
    IF nfi > 9700 THEN "green"
    ELSE IF nfi >= 9400 THEN "amber"
    ELSE "red"

\* calculateFreshnessAdjustedSRS as it would be if only a red status were
\* neutralised: C9 rests on amber being neutralised too.
calculateFreshnessAdjustedSRS_OnlyRed(hrv, tsb, nfi) ==
    LET nfiStatus == getNFIStatus(nfi)
        isStale == nfiStatus = "red" /\ tsb >= 0
    IN  calculateSRS(hrv, tsb, IF isStale THEN 10000 ELSE nfi)

\* calculateFreshnessAdjustedSRS(hrv, tsb, nfi)
calculateFreshnessAdjustedSRS(hrv, tsb, nfi) ==
    LET nfiStatus == getNFIStatus(nfi)
        isStale == (nfiStatus = "red" \/ nfiStatus = "amber") /\ tsb >= 0
    IN  calculateSRS(hrv, tsb, IF isStale THEN 10000 ELSE nfi)

\* getSmartRecoveryWindow as it would be on the plain recovery score: C10
\* rests on the freshness-adjusted score.
getSmartRecoveryWindow_PlainSRS(age, hrv, tsb, nfi) ==
    LET nfiStatus == getNFIStatus(nfi)
        staleVmax == (nfiStatus = "red" \/ nfiStatus = "amber") /\ tsb >= 0
        srs == calculateSRS(hrv, tsb, nfi)
        hours == getRecoveryWindow(age, srs)
    IN  [hours |-> hours, srs |-> srs, staleVmax |-> staleVmax]

\* getSmartRecoveryWindow(age, hrv, tsb, nfi)
getSmartRecoveryWindow(age, hrv, tsb, nfi) ==
    LET nfiStatus == getNFIStatus(nfi)
        staleVmax == (nfiStatus = "red" \/ nfiStatus = "amber") /\ tsb >= 0
        srs == calculateFreshnessAdjustedSRS(hrv, tsb, nfi)
        hours == getRecoveryWindow(age, srs)
    IN  [hours |-> hours, srs |-> srs, staleVmax |-> staleVmax]

\* An omitted optional argument (context?: SprintContext)
UNDEFINED == [undefined |-> TRUE]

\* isStaleVmax as it would be with context.tsb > 0: C8 rests on TSB 0
\* counting as fresh.
isStaleVmax_StrictlyPositiveTSB(nfiStatus, context) ==
    IF context = UNDEFINED THEN FALSE
    ELSE (nfiStatus = "red" \/ nfiStatus = "amber") /\ context.tsb > 0

\* isStaleVmax(nfiStatus, context)
isStaleVmax(nfiStatus, context) ==
    IF context = UNDEFINED THEN FALSE
    ELSE (nfiStatus = "red" \/ nfiStatus = "amber") /\ context.tsb >= 0

\* Arguments drawn.
HRVs == [currentHRV : {-10, 0, 40, 45, 52, 60, 200}, avgHRV7d : {-5, 0, 50, 60}]
TSBs == {-300, -201, -200, -100, -1, 0, 1, 50, 200, 250}
NFIs == {0, 8500, 9000, 9399, 9400, 9550, 9700, 9701, 9850, 10000, 10500}
Ages == {35, 40, 45, 60}
WindowAges == {18, 39, 40, 41, 49, 70}
SRSs == 0..100
Vmaxes == {-9500, -1, 0, 8900, 9500, 10200}
Bands == {"green", "amber", "red"}
Contexts == {UNDEFINED} \cup [tsb : TSBs]

(***************************************************************************)
(* RaceEstimator                                                           *)
(*                                                                         *)
(* The estimator multiplies and divides reals in long chains.  Its reals   *)
(* are kept in fixed point, in millionths (speeds in 10^-6 m/s, times in   *)
(* 10^-6 s, fractions and ratios in 10^-6), each product and quotient      *)
(* rounded to the nearest millionth where the code rounds to the nearest   *)
(* double.  Sums, differences, comparisons, Math.min and Math.max are      *)
(* exact.  Values stay below 2147 (speeds in m/s, times in s).             *)
(* Inputs keep the units of the rest of the model: bestVmax60d and avgVmax *)
(* in mm/s, nfi in 1/10000, tsb in tenths, flyingVelocity in 1/6000 m/s.   *)
(* Values returned through toFixed(2) are in hundredths.                   *)
(***************************************************************************)
\* a * b of two non-negative fixed-point numbers, by parts of three digits
FMul(a, b) ==
    LET a1 == a \div 1000
        a0 == a % 1000
        b1 == b \div 1000
        b0 == b % 1000
        m  == a1 * b0 + a0 * b1
    IN  a1 * b1 + m \div 1000
          + ((m % 1000) * 1000 + a0 * b0 + 500000) \div 1000000

\* the n next decimal digits of r / b (r < b), then rounding on the rest
RECURSIVE FDivDigits(_, _, _, _)
FDivDigits(r, b, n, acc) ==
    IF n = 0 THEN acc + (IF 2 * r >= b THEN 1 ELSE 0)
    ELSE FDivDigits((r * 10) % b, b, n - 1, acc * 10 + (r * 10) \div b)

\* a / b of two fixed-point numbers, a >= 0, b > 0, by long division
FDiv(a, b) == (a \div b) * 1000000 + FDivDigits(a % b, b, 6, 0)

\* a / n of a fixed-point number by a whole number n > 0
FDivInt(a, n) == (2 * a + n) \div (2 * n)

\* metres or seconds given as a whole number, in fixed point
Whole(n) == n * 1000000

\* 0.15 s
REACTION_TIME == 150000

\* 0.007 per year
AGE_DEGRADATION_PER_YEAR == 7000

BASE_SPEED_SUSTAIN == (100 :> 910000) @@ (200 :> 880000) @@ (400 :> 780000)

\* intervals.filter(keep), by the interval's type
RECURSIVE FilterType(_, _)
FilterType(intervals, types) ==
    IF intervals = <<>> THEN <<>>
    ELSE LET rest == FilterType(Tail(intervals), types)
         IN  IF Head(intervals).type \in types
             THEN <<Head(intervals)>> \o rest ELSE rest

\* the sum over the intervals of (distance / duration) / peakVmax
RECURSIVE SumRatios(_, _)
SumRatios(seIntervals, peakVmax) ==
    IF seIntervals = <<>> THEN 0
    ELSE LET i == Head(seIntervals)
             avgSpeed == FDivInt(Whole(i.distance), i.duration)
         IN  FDiv(avgSpeed, peakVmax * 1000)
               + SumRatios(Tail(seIntervals), peakVmax)

\* Math.max over the flyingVelocity values > 0, 0 when there is none
RECURSIVE BestFlying(_)
BestFlying(intervals) ==
    IF intervals = <<>> THEN 0
    ELSE LET rest == BestFlying(Tail(intervals))
             fv == Head(intervals).flyingVelocity
         IN  IF fv > 0 /\ fv > rest THEN fv ELSE rest

RECURSIVE SumDurations(_)
SumDurations(intervals) ==
    IF intervals = <<>> THEN 0
    ELSE Head(intervals).duration + SumDurations(Tail(intervals))

\* buildTrainingProfile(intervals, peakVmax): peakVmax in mm/s;
\* speedEnduranceIndex and avgAccelerationTime in millionths,
\* bestFlyingVelocity in 1/6000 m/s.
buildTrainingProfile(intervals, peakVmax) ==
    LET seIntervals ==
            FilterType(intervals, {"SpeedEndurance", "SpecialEndurance"})
        speedEnduranceIndex ==
            IF Len(seIntervals) > 0 /\ peakVmax > 0
            THEN FDivInt(SumRatios(seIntervals, peakVmax), Len(seIntervals))
            ELSE 0
        accelIntervals == FilterType(intervals, {"Acceleration"})
        avgAccelerationTime ==
            IF Len(accelIntervals) > 0
            THEN FDivInt(Whole(SumDurations(accelIntervals)), Len(accelIntervals))
            ELSE 0
    IN  [speedEnduranceIndex |-> speedEnduranceIndex,
         bestFlyingVelocity  |-> BestFlying(intervals),
         avgAccelerationTime |-> avgAccelerationTime,
         seIntervalCount     |-> Len(seIntervals),
         accelIntervalCount  |-> Len(accelIntervals)]

\* getDynamicSustainFractions without the Math.max(0.70, ...) floor of the
\* 400 m fraction
getDynamicSustainFractions_NoFloor400(profile) ==
    IF profile = NULL THEN BASE_SPEED_SUSTAIN
    ELSE LET seDeviation == profile.speedEnduranceIndex - 850000
             seAdjusted ==
                 profile.seIntervalCount >= 2 /\ profile.speedEnduranceIndex > 0
             accelAdjusted ==
                 /\ profile.accelIntervalCount >= 3
                 /\ profile.avgAccelerationTime > 0
                 /\ profile.avgAccelerationTime < 4500000
             bonus == ToFixed(4500000 - profile.avgAccelerationTime, 100, 1)
         IN  (100 :> IF accelAdjusted
                     THEN Min2(950000, BASE_SPEED_SUSTAIN[100] + bonus)
                     ELSE BASE_SPEED_SUSTAIN[100])
             @@ (200 :> IF seAdjusted
                        THEN Max2(820000, Min2(930000,
                                 BASE_SPEED_SUSTAIN[200]
                                   + ToFixed(seDeviation * 5, 10, 1)))
                        ELSE BASE_SPEED_SUSTAIN[200])
             @@ (400 :> IF seAdjusted
                        THEN Min2(850000, BASE_SPEED_SUSTAIN[400]
                                            + ToFixed(seDeviation * 7, 10, 1))
                        ELSE BASE_SPEED_SUSTAIN[400])

\* getDynamicSustainFractions(profile): profile is NULL or a TrainingProfile
getDynamicSustainFractions(profile) ==
    IF profile = NULL THEN BASE_SPEED_SUSTAIN
    ELSE LET seDeviation == profile.speedEnduranceIndex - 850000
             seAdjusted ==
                 profile.seIntervalCount >= 2 /\ profile.speedEnduranceIndex > 0
             accelAdjusted ==
                 /\ profile.accelIntervalCount >= 3
                 /\ profile.avgAccelerationTime > 0
                 /\ profile.avgAccelerationTime < 4500000
             bonus == ToFixed(4500000 - profile.avgAccelerationTime, 100, 1)
         IN  (100 :> IF accelAdjusted
                     THEN Min2(950000, BASE_SPEED_SUSTAIN[100] + bonus)
                     ELSE BASE_SPEED_SUSTAIN[100])
             @@ (200 :> IF seAdjusted
                        THEN Max2(820000, Min2(930000,
                                 BASE_SPEED_SUSTAIN[200]
                                   + ToFixed(seDeviation * 5, 10, 1)))
                        ELSE BASE_SPEED_SUSTAIN[200])
             @@ (400 :> IF seAdjusted
                        THEN Max2(700000, Min2(850000,
                                 BASE_SPEED_SUSTAIN[400]
                                   + ToFixed(seDeviation * 7, 10, 1)))
                        ELSE BASE_SPEED_SUSTAIN[400])

\* getReadinessModifier without the Math.min(1.03, ...) of its last line
getReadinessModifier_NoCeiling(nfi, tsb) ==
    LET nfiPart == (nfi - 10000) * 33
        tsbPart == IF tsb > 50 THEN Min2(tsb * 100, 10000)
                   ELSE IF tsb < -100 THEN Max2(tsb * 50, -15000)
                   ELSE 0
    IN  Max2(950000, 1000000 + nfiPart + tsbPart)

\* getReadinessModifier(nfi, tsb): nfi in 1/10000, tsb in tenths
getReadinessModifier(nfi, tsb) ==
    LET nfiPart == (nfi - 10000) * 33
        tsbPart == IF tsb > 50 THEN Min2(tsb * 100, 10000)
                   ELSE IF tsb < -100 THEN Max2(tsb * 50, -15000)
                   ELSE 0
        mod == 1000000 + nfiPart + tsbPart
    IN  Max2(950000, Min2(1030000, mod))

\* the fatigue indices and stress balances given to the readiness modifier
ReadinessNFIs == NFIs \cup {8484, 8485, 10909, 10910, 20000}

ReadinessTSBs == TSBs \cup {-1000, -101, 51, 100, 500}

\* the most repetitions of one interval in a training history
MaxReps == 3

RECURSIVE Repeat(_, _)
Repeat(x, n) == IF n = 0 THEN <<>> ELSE <<x>> \o Repeat(x, n - 1)

\* TrackIntervals as parseTrackSession emits them: distance in m, vMax in
\* mm/s, duration in s, flyingVelocity in 1/6000 m/s
AccelerationIntervals ==
    { [type |-> "Acceleration", distance |-> 30, vMax |-> 9500,
       duration |-> 4, flyingVelocity |-> 55200],
      [type |-> "Acceleration", distance |-> 30, vMax |-> 2200,
       duration |-> 15, flyingVelocity |-> 12600] }

EnduranceIntervals ==
    { [type |-> "SpeedEndurance", distance |-> 120, vMax |-> 9800,
       duration |-> 14, flyingVelocity |-> 57600],
      [type |-> "SpeedEndurance", distance |-> 100, vMax |-> 10100,
       duration |-> 10, flyingVelocity |-> 60600],
      [type |-> "SpecialEndurance", distance |-> 300, vMax |-> 7000,
       duration |-> 50, flyingVelocity |-> 41400] }

MaxVelocityInterval ==
    [type |-> "MaxVelocity", distance |-> 60, vMax |-> 10200,
     duration |-> 7, flyingVelocity |-> 60000]

\* training histories: some accelerations, some endurance runs and perhaps
\* one max-velocity run
TrainingIntervals ==
    { Repeat(a, i) \o Repeat(e, j) \o tail :
        a \in AccelerationIntervals, i \in 0..MaxReps,
        e \in EnduranceIntervals, j \in 0..MaxReps,
        tail \in {<<>>, <<MaxVelocityInterval>>} }

PeakVmaxes == {-1000, 0, 9000, 9800, 10100, 10200}

\* the profiles given to getDynamicSustainFractions: none, the profiles of
\* the training histories, and profiles with values on both sides of every
\* threshold
Profiles ==
    {NULL}
    \cup { buildTrainingProfile(l, v) :
             l \in TrainingIntervals \ {<<>>}, v \in {9800, 10200} }
    \cup [speedEnduranceIndex : {0, 1, 500000, 850000, 1010000, 2000000},
          bestFlyingVelocity  : {0},
          avgAccelerationTime : {0, 1, 500000, 4000000, 4499999, 4500000,
                                 15000000},
          seIntervalCount     : {0, 1, 2, 5},
          accelIntervalCount  : {0, 2, 3, 5}]

\* formatTime(seconds): seconds in hundredths.  The string is kept by its
\* parts: "--", or the seconds with two decimals, or minutes, ":", a "0"
\* when the seconds are below 10, and the seconds with two decimals.
formatTime(seconds) ==
    IF seconds <= 0 THEN [text |-> "--"]
    ELSE IF seconds < 6000 THEN [secs |-> seconds]
    ELSE LET mins == seconds \div 6000
             secs == seconds - mins * 6000
         IN  [mins |-> mins, zero |-> secs < 1000, secs |-> secs]

\* getConfidence(input, profile)
getConfidence(input, profile) ==
    LET hasGoodHistory ==
            /\ profile # NULL
            /\ profile.seIntervalCount >= 2
            /\ profile.accelIntervalCount >= 2
    IN  IF input.activityCount >= 10 /\ input.bestVmax60d > 0 /\ hasGoodHistory
        THEN "high"
        ELSE IF input.activityCount >= 10 /\ input.bestVmax60d > 0 THEN "high"
        ELSE IF input.activityCount >= 3 THEN "moderate"
        ELSE "low"

\* parts.push(...) when the condition holds
PushIf(cond, part) == IF cond THEN <<part>> ELSE <<>>

\* getNote(distance, input, readinessMod, profile): the parts that the code
\* joins with a middle dot (an em dash is written '-'); a number printed inside a part is kept as its value
\* (the index in percent, the flying velocity in tenths of m/s, the age).
getNote(distance, input, readinessMod, profile) ==
    LET parts ==
            PushIf(profile # NULL /\ profile.seIntervalCount >= 2,
                   [text  |-> "SE index %",
                    value |-> IF profile = NULL THEN 0
                              ELSE ToFixed(profile.speedEnduranceIndex, 10000, 1)])
            \o PushIf(profile # NULL /\ profile.bestFlyingVelocity > 0,
                   [text  |-> "Flying m/s",
                    value |-> IF profile = NULL THEN 0
                              ELSE ToFixed(profile.bestFlyingVelocity, 600, 1)])
            \o PushIf(input.age >= 40,
                   [text |-> "Age-adjusted (y)", value |-> input.age])
            \o PushIf(readinessMod < 990000,
                   [text |-> "Fatigue penalty applied"])
            \o PushIf(readinessMod >= 990000 /\ readinessMod > 1010000,
                   [text |-> "Peak form bonus"])
            \o PushIf(distance = 400 /\ input.nfiStatus = "red",
                   [text |-> "Speed endurance likely compromised"])
            \o PushIf(input.activityCount < 5,
                   [text |-> "Limited training data"])
            \o PushIf(profile = NULL /\ input.activityCount >= 5,
                   [text |-> "No interval history - using Vmax model only"])
    IN  IF Len(parts) > 0 THEN parts
        ELSE <<[text |-> "Based on recent training Vmax"]>>

\* computePhaseBreakdown(distance, effectiveVmax, avgSpeed, profile): speeds
\* in millionths of m/s; the four times in hundredths of a second
computePhaseBreakdown(distance, effectiveVmax, avgSpeed, profile) ==
    LET reaction == REACTION_TIME
        totalRunTime == FDiv(Whole(distance), avgSpeed)
        accelDistance == IF distance <= 100 THEN 30
                         ELSE IF distance <= 200 THEN 40 ELSE 50
        accelAvgSpeed == FMul(effectiveVmax, 550000)
        accelerationTime ==
            IF /\ profile # NULL
               /\ profile.accelIntervalCount >= 2
               /\ profile.avgAccelerationTime > 0
            THEN FMul(profile.avgAccelerationTime,
                      FDivInt(Whole(accelDistance), 30))
            ELSE FDiv(Whole(accelDistance), accelAvgSpeed)
        maxVelDistance ==
            IF distance <= 100 THEN distance - accelDistance
            ELSE IF distance <= 200 THEN Min2(60, distance - accelDistance)
            ELSE Min2(50, distance - accelDistance)
        maxVelocityTime == FDiv(Whole(maxVelDistance), effectiveVmax)
        decelTime ==
            Max2(0, totalRunTime - accelerationTime - maxVelocityTime)
    IN  [reaction     |-> ToFixed(reaction, 10000, 1),
         acceleration |-> ToFixed(accelerationTime, 10000, 1),
         maxVelocity  |-> ToFixed(maxVelocityTime, 10000, 1),
         deceleration |-> ToFixed(decelTime, 10000, 1)]

\* the estimate returned when peakVmax <= 0, as it would be if it kept the
\* reaction time among its phases
NoDataEstimate_KeepsReaction(distance) ==
    [distance      |-> distance,
     predictedTime |-> 0,
     display       |-> [text |-> "--"],
     confidence    |-> "low",
     note          |-> <<[text |-> "Insufficient velocity data"]>>,
     phases        |-> [reaction |-> ToFixed(REACTION_TIME, 10000, 1),
                        acceleration |-> 0,
                        maxVelocity |-> 0, deceleration |-> 0]]

\* the estimate returned when peakVmax <= 0
NoDataEstimate(distance) ==
    [distance      |-> distance,
     predictedTime |-> 0,
     display       |-> [text |-> "--"],
     confidence    |-> "low",
     note          |-> <<[text |-> "Insufficient velocity data"]>>,
     phases        |-> [reaction |-> 0, acceleration |-> 0,
                        maxVelocity |-> 0, deceleration |-> 0]]

\* estimateDistance(distance, input)
estimateDistance(distance, input) ==
    LET peakVmax == Max2(input.bestVmax60d, input.avgVmax)
        profile ==
            IF /\ "trainingIntervals" \in DOMAIN input
               /\ Len(input.trainingIntervals) > 0
            THEN buildTrainingProfile(input.trainingIntervals, peakVmax)
            ELSE NULL
        sustainFraction == getDynamicSustainFractions(profile)[distance]
        effectiveVmax ==
            IF profile # NULL /\ profile.bestFlyingVelocity > 0
            THEN Min2(profile.bestFlyingVelocity * 100 + peakVmax * 400,
                      peakVmax * 1020)
            ELSE peakVmax * 1000
        agePenalty ==
            IF input.age > 35
            THEN 1000000 - (input.age - 35) * AGE_DEGRADATION_PER_YEAR
            ELSE 1000000
        readinessModifier == getReadinessModifier(input.nfi, input.tsb)
        avgSpeed ==
            FMul(FMul(FMul(effectiveVmax, sustainFraction),
                      Max2(agePenalty, 650000)),
                 readinessModifier)
        rawTime == FDiv(Whole(distance), avgSpeed) + REACTION_TIME
        predictedTime == ToFixed(rawTime, 10000, 1)
    IN  IF peakVmax <= 0
        THEN NoDataEstimate(distance)
        ELSE [distance      |-> distance,
              predictedTime |-> predictedTime,
              display       |-> formatTime(predictedTime),
              confidence    |-> getConfidence(input, profile),
              note          |-> getNote(distance, input, readinessModifier,
                                        profile),
              phases        |-> computePhaseBreakdown(distance, effectiveVmax,
                                                      avgSpeed, profile)]

\* estimate as it would be if every call were given the first distance
estimate_AlwaysFirstDistance(input) ==
    [d \in {100, 200, 400} |-> estimateDistance(100, input)]

\* estimate(input): the three estimates, by distance
estimate(input) == [d \in {100, 200, 400} |-> estimateDistance(d, input)]

\* the histories given to estimate: none or two accelerations, none or two
\* endurance runs, with or without the max-velocity run
EstimateHistories ==
    { l \in TrainingIntervals :
        /\ Len(FilterType(l, {"Acceleration"})) \in {0, 2}
        /\ Len(FilterType(l, {"SpeedEndurance", "SpecialEndurance"})) \in {0, 2} }

\* <<bestVmax60d, avgVmax>> in mm/s
VmaxPairs ==
    { <<0, 0>>, <<-1000, -500>>, <<0, 9800>>, <<1000, 0>>, <<9500, 9800>>,
      <<10100, 9800>>, <<100000, 9800>> }

\* RaceEstimatorInput without trainingIntervals; nfiStatus is the band of nfi
PlainInputs ==
    { [bestVmax60d |-> v[1], avgVmax |-> v[2], nfi |-> n,
       nfiStatus |-> getNFIStatus(n), tsb |-> t, age |-> a,
       activityCount |-> c] :
        v \in VmaxPairs, n \in {9100, 9600, 10400}, t \in {-250, 0, 100},
        a \in {30, 45, 90}, c \in {2, 3, 9, 10} }

EstimatorInputs ==
    PlainInputs
    \cup { [bestVmax60d |-> i.bestVmax60d, avgVmax |-> i.avgVmax,
            nfi |-> i.nfi, nfiStatus |-> i.nfiStatus, tsb |-> i.tsb,
            age |-> i.age, activityCount |-> i.activityCount,
            trainingIntervals |-> l] :
             i \in PlainInputs, l \in EstimateHistories }

(***************************************************************************)
(* SprintWorkoutGenerator                                                  *)
(*                                                                         *)
(* A workout keeps its name, status, the numbers printed in its rationale  *)
(* (the index in tenths of a percent, and for the re-activation the sign   *)
(* and the value of the TSB), the name and reps of each block of its main  *)
(* set, its total sprint volume and, of its text description, the status  *)
(* label, the index, the blocks and the volume.  A dash in a name is       *)
(* written '-'.                                                            *)
(***************************************************************************)
Block(name, reps) == [name |-> name, reps |-> reps]

\* (nfi * 100).toFixed(1), in tenths of a percent
NfiPercent(nfi) == ToFixed(nfi, 10, 1)

\* formatDescription(status, nfi, warmup, mainSet, cooldown, volume): of the
\* lines of the text, the status label, the index, the blocks of the main
\* set and the volume
formatDescription(status, nfi, mainSet, volume) ==
    [statusLabel |-> IF status = "green" THEN "GREEN"
                     ELSE IF status = "amber" THEN "AMBER" ELSE "RED",
     nfi         |-> NfiPercent(nfi),
     blocks      |-> mainSet,
     volume      |-> volume]

greenWorkout(nfi) ==
    LET mainSet == <<Block("Block Starts", 3), Block("Flying 30s", 3),
                       Block("Full 60m", 2)>>
    IN  [name      |-> "Max Velocity - Neural Priming Session",
         status    |-> "green",
         rationale |-> [nfi |-> NfiPercent(nfi), text |-> "CNS is fully primed"],
         mainSet   |-> mainSet,
         totalSprintVolume |-> "~300m total sprint distance",
         workoutDescription |->
             formatDescription("green", nfi, mainSet, "~300m")]

amberWorkout(nfi) ==
    LET mainSet == <<Block("Wicket Runs", 4), Block("Short Accelerations", 3),
                       Block("A-Skip + B-Skip Complex", 3)>>
    IN  [name      |-> "Technical Sprint - CNS Management Session",
         status    |-> "amber",
         rationale |-> [nfi |-> NfiPercent(nfi),
                        text |-> "moderate CNS suppression"],
         mainSet   |-> mainSet,
         totalSprintVolume |-> "~150m sprint equivalent",
         workoutDescription |->
             formatDescription("amber", nfi, mainSet, "~150m")]

redWorkout(nfi) ==
    LET mainSet == <<Block("Active Recovery Walk", 1),
                       Block("Dynamic Mobility Circuit", 2)>>
    IN  [name      |-> "Recovery - Neural Restoration",
         status    |-> "red",
         rationale |-> [nfi |-> NfiPercent(nfi),
                        text |-> "significant neural fatigue detected"],
         mainSet   |-> mainSet,
         totalSprintVolume |-> "0m sprint distance",
         workoutDescription |->
             formatDescription("red", nfi, mainSet, "0m")]

reactivationWorkout(nfi, tsb) ==
    LET mainSet == <<Block("Standing Accelerations", 3), Block("Flying 20s", 3),
                       Block("Wicket Runs", 3)>>
    IN  [name      |-> "Neural Re-Activation - Restore Sprint Speed",
         status    |-> "red",
         rationale |-> [nfi |-> NfiPercent(nfi),
                        text |-> "likely from detraining, not fatigue",
                        plus |-> tsb > 0, tsb |-> ToFixed(tsb, 1, 1)],
         mainSet   |-> mainSet,
         totalSprintVolume |-> "~150m sprint distance",
         workoutDescription |->
             formatDescription("red", nfi, mainSet, "~150m")]

\* generate as it would be if only a red band could be stale
generate_StaleOnlyWhenRed(nfiStatus, nfi, context) ==
    IF isStaleVmax(nfiStatus, context) /\ nfiStatus = "red"
    THEN reactivationWorkout(nfi, context.tsb)
    ELSE CASE nfiStatus = "green" -> greenWorkout(nfi)
           [] nfiStatus = "amber" -> amberWorkout(nfi)
           [] nfiStatus = "red"   -> redWorkout(nfi)

\* SprintWorkoutGenerator.generate(nfiStatus, nfi, context)
generate(nfiStatus, nfi, context) ==
    IF isStaleVmax(nfiStatus, context)
    THEN reactivationWorkout(nfi, context.tsb)
    ELSE CASE nfiStatus = "green" -> greenWorkout(nfi)
           [] nfiStatus = "amber" -> amberWorkout(nfi)
           [] nfiStatus = "red"   -> redWorkout(nfi)

(***************************************************************************)
(* Strength prescription (tsb in tenths)                                   *)
(***************************************************************************)
\* getStrengthPrescription as it would be with tsb > -20 for the tired zone
getStrengthPrescription_TiredAboveMinus20(tsb) ==
    IF tsb >= 0
    THEN [zone |-> "fresh", intensity |-> "high",
          focus |-> "Max Strength - High Intensity, Low Volume"]
    ELSE IF tsb > -200
    THEN [zone |-> "tired", intensity |-> "moderate",
          focus |-> "Stiffened Plyometrics - Moderate Intensity"]
    ELSE [zone |-> "fatigued", intensity |-> "none",
          focus |-> "Rest or Active Mobility only"]

\* SilverSprintLogic.getStrengthPrescription(tsb)
getStrengthPrescription(tsb) ==
    IF tsb >= 0
    THEN [zone |-> "fresh", intensity |-> "high",
          focus |-> "Max Strength - High Intensity, Low Volume"]
    ELSE IF tsb >= -200
    THEN [zone |-> "tired", intensity |-> "moderate",
          focus |-> "Stiffened Plyometrics - Moderate Intensity"]
    ELSE [zone |-> "fatigued", intensity |-> "none",
          focus |-> "Rest or Active Mobility only"]

\* an Exercise by its name, type, sets and intensity
Exercise(name, type, sets, intensity) ==
    [name |-> name, type |-> type, sets |-> sets, intensity |-> intensity]

FRESH_EXERCISES ==
    << Exercise("Trap Bar Deadlift", "strength", 3, "85%"),
       Exercise("Weighted Step-Up", "strength", 3, "80%"),
       Exercise("Hang Power Clean", "strength", 3, "80%") >>

TIRED_EXERCISES ==
    << Exercise("Pogo Jumps", "plyometric", 3, "Max Stiffness"),
       Exercise("Hurdle Hops", "plyometric", 3, "Reactive"),
       Exercise("Single-Leg Bounds", "plyometric", 3, "Moderate") >>

FATIGUED_EXERCISES ==
    << Exercise("Foam Rolling", "mobility", 1, "Low"),
       Exercise("Hip Flexor Stretch", "mobility", 2, "Low"),
       Exercise("Active Walking", "rest", 1, "Very Low") >>

\* StrengthPeriodization.getPrescription(tsb)
getPrescription(tsb) ==
    LET base == getStrengthPrescription(tsb)
    IN  CASE base.zone = "fresh" ->
               [zone |-> "fresh", exercises |-> FRESH_EXERCISES]
          [] base.zone = "tired" ->
               [zone |-> "tired", exercises |-> TIRED_EXERCISES]
          [] base.zone = "fatigued" ->
               [zone |-> "fatigued", exercises |-> FATIGUED_EXERCISES]

(***************************************************************************)
(* SprintRacePlanner                                                       *)
(*                                                                         *)
(* A text that the code may extend through a template (a focus, a session, *)
(* a strength note) is kept as the sequence of its parts: a literal is one *)
(* part, a template result has the base text first and then what the       *)
(* template adds.  A dash in a text is written '-'.  daysUntil is a whole  *)
(* number of days, distanceM a whole number of metres.                     *)
(***************************************************************************)
\* maxDays of a phase: a number of days, or Infinity
Days(n) == [finite |-> TRUE, days |-> n]

Infinity == [finite |-> FALSE]

\* daysUntil <= maxDays
AtMost(daysUntil, maxDays) == ~maxDays.finite \/ daysUntil <= maxDays.days

PHASES ==
    << [maxDays |-> Days(3), label |-> "Race Prep",
        timeframe |-> "1-3 days out",
        focus |-> <<"Stay sharp - rest CNS, no max efforts">>,
        sessions |-> << <<"2-3 x 30m accelerations at 80%">>,
                        <<"Activation strides only, no near-maximal work">>,
                        <<"Full race warm-up protocol rehearsal">> >>,
        strengthNote |-> <<"No strength work - full CNS rest">>],
       [maxDays |-> Days(7), label |-> "Final Taper",
        timeframe |-> "4-7 days out",
        focus |-> <<"Reduce volume, maintain sharpness">>,
        sessions |-> << <<"3 x 30m block starts at 95%">>,
                        <<"2 x 60m build-up runs">>,
                        <<"Technical drills: A-skips, B-skips, wickets">> >>,
        strengthNote |->
            <<"Bodyweight plyometrics only (pogo jumps, hurdle hops)">>],
       [maxDays |-> Days(14), label |-> "Race-Specific",
        timeframe |-> "1-2 weeks out",
        focus |-> <<"Race-pace efforts + taper begins">>,
        sessions |-> << <<"4 x race-distance at 90-95%">>,
                        <<"Block start practice: 6 x 20m">>,
                        <<"Speed endurance: 2 x 150m @ 85%">> >>,
        strengthNote |->
            <<"Strength maintenance: 2 sets only, reduce volume 40%">>],
       [maxDays |-> Days(28), label |-> "Sharpen",
        timeframe |-> "2-4 weeks out",
        focus |-> <<"Speed development & event specificity">>,
        sessions |-> << <<"5 x 60m flying starts at 95%">>,
                        <<"3 x race distance at 90%">>,
                        <<"Speed endurance: 2-3 x 200m at 85%">> >>,
        strengthNote |->
            <<"Moderate strength: plyometrics + power lifts at 75%">>],
       [maxDays |-> Infinity, label |-> "Build",
        timeframe |-> "4+ weeks out",
        focus |-> <<"Max velocity development & strength base">>,
        sessions |-> << <<"6 x 30m acceleration sprints">>,
                        <<"3 x 60m max velocity (flying start)">>,
                        <<"Flying 30s: 4-5 reps at >95%">> >>,
        strengthNote |->
            <<"Full strength block: max effort lifts at 85-90%">>] >>

DEFERRED_PHASE ==
    [label |-> "Deferred",
     timeframe |-> "Until prior race",
     focus |-> <<"Support primary race taper - no conflicting high-intensity work">>,
     sessions |-> << <<"Short acceleration strides only (20-30m)">>,
                     <<"Technical drills at low intensity">>,
                     <<"Active recovery: mobility & easy running">> >>,
     strengthNote |->
         <<"Bodyweight mobility only - no heavy lifting while in taper for prior race">>]

COMPLEMENTARY_BUILD_NOTE ==
    "Build phase serves both races - Vmax development transfers directly."

\* PHASES.find((p) => daysUntil <= p.maxDays), from index i on
RECURSIVE FindPhase(_, _)
FindPhase(daysUntil, i) ==
    IF AtMost(daysUntil, PHASES[i].maxDays) THEN PHASES[i]
    ELSE FindPhase(daysUntil, i + 1)

\* getPhase(daysUntil)
getPhase(daysUntil) ==
    LET phase == FindPhase(daysUntil, 1)
    IN  [label        |-> phase.label,
         timeframe    |-> phase.timeframe,
         focus        |-> phase.focus,
         sessions     |-> phase.sessions,
         strengthNote |-> phase.strengthNote]

\* recoveryDays with the 200 m band closed at 400 m
recoveryDays_NoSevenDayBand(distanceM) ==
    IF distanceM <= 100 THEN 4
    ELSE IF distanceM <= 400 THEN 5
    ELSE 9

\* recoveryDays(distanceM)
recoveryDays(distanceM) ==
    IF distanceM <= 100 THEN 4
    ELSE IF distanceM <= 200 THEN 5
    ELSE IF distanceM <= 400 THEN 7
    ELSE 9

\* estimateRaceTime(distanceM, bestVmax, age): bestVmax in mm/s; the string
\* by its parts, the seconds in hundredths; reals in fixed point as in the
\* race estimator
estimateRaceTime(distanceM, bestVmax, age) ==
    LET sustainFraction ==
            IF distanceM <= 60 THEN 940000
            ELSE IF distanceM <= 100 THEN 910000
            ELSE IF distanceM <= 200 THEN 880000
            ELSE IF distanceM <= 400 THEN 780000
            ELSE IF distanceM <= 600 THEN 700000
            ELSE 650000
        agePenalty ==
            IF age > 35
            THEN Max2(1000000 - (age - 35) * AGE_DEGRADATION_PER_YEAR, 650000)
            ELSE 1000000
        avgSpeed == FMul(FMul(bestVmax * 1000, sustainFraction), agePenalty)
        time == FDiv(Whole(distanceM), avgSpeed) + 150000
        mins == time \div 60000000
        secs == time - mins * 60000000
    IN  IF bestVmax <= 0 THEN [text |-> "--"]
        ELSE IF time < 60000000
        THEN [secs |-> ToFixed(time, 10000, 1), unit |-> "s"]
        ELSE [mins |-> mins, zero |-> secs < 10000000,
              secs |-> ToFixed(secs, 10000, 1)]

\* s => `${s} (reduced volume)` over the sessions
RECURSIVE ReducedVolume(_)
ReducedVolume(sessions) ==
    IF sessions = <<>> THEN <<>>
    ELSE <<Head(sessions) \o <<"(reduced volume)">> >>
           \o ReducedVolume(Tail(sessions))

\* Math.max(0, race.daysUntil - primary.daysUntil - recovDays) without the
\* Math.max
effectiveDays_NoFloor(race, primary) ==
    race.daysUntil - primary.daysUntil - recoveryDays(primary.distanceM)

\* effectiveDays of a secondary race
effectiveDays(race, primary) ==
    Max2(0, race.daysUntil - primary.daysUntil
              - recoveryDays(primary.distanceM))

\* the current phase of a secondary race, without the complementary note
currentPhaseOf_NoComplementaryNote(race, primary) ==
    IF primary.daysUntil <= 14 THEN DEFERRED_PHASE
    ELSE IF primary.daysUntil > 28 THEN getPhase(race.daysUntil)
    ELSE LET base == getPhase(race.daysUntil)
         IN  [base EXCEPT
                !.focus = base.focus
                            \o <<"volume capped to support", primary.name>>,
                !.sessions = ReducedVolume(base.sessions),
                !.strengthNote =
                    base.strengthNote
                      \o <<"Keep intensity moderate while sharpening for",
                           primary.name>>]

\* the current phase of a secondary race
currentPhaseOf(race, primary) ==
    LET isConstrained == primary.daysUntil <= 14
        sharedBuildWindow == primary.daysUntil > 28
        base == getPhase(race.daysUntil)
    IN  IF isConstrained THEN DEFERRED_PHASE
        ELSE IF sharedBuildWindow
        THEN [base EXCEPT
                !.strengthNote =
                    base.strengthNote \o <<COMPLEMENTARY_BUILD_NOTE>>]
        ELSE [base EXCEPT
                !.focus = base.focus
                            \o <<"volume capped to support", primary.name>>,
                !.sessions = ReducedVolume(base.sessions),
                !.strengthNote =
                    base.strengthNote
                      \o <<"Keep intensity moderate while sharpening for",
                           primary.name>>]

\* the callback of races.map in buildMultiRacePlans, for races[index]
\* (index from 1)
PlanOf(races, index, bestVmax, age) ==
    LET race == races[index]
        goalTime == estimateRaceTime(race.distanceM, bestVmax, age)
        primary == races[1]
        primaryPhase == getPhase(primary.daysUntil)
        recovDays == recoveryDays(primary.distanceM)
    IN  IF index = 1
        THEN [race |-> race, goalTime |-> goalTime,
              currentPhase |-> getPhase(race.daysUntil)]
        ELSE [race |-> race, goalTime |-> goalTime,
              currentPhase |-> currentPhaseOf(race, primary),
              priorRaceContext |->
                  [priorityRaceName      |-> primary.name,
                   priorityRaceDate      |-> primary.date,
                   priorityRaceDaysUntil |-> primary.daysUntil,
                   priorityPhaseLabel    |-> primaryPhase.label,
                   recoveryDaysAfter     |-> recovDays,
                   effectiveTrainingDays |-> effectiveDays(race, primary),
                   postRecoveryPhase     |->
                       getPhase(effectiveDays(race, primary)),
                   isConstrained         |-> primary.daysUntil <= 14]]

\* buildMultiRacePlans(races, bestVmax, age)
buildMultiRacePlans(races, bestVmax, age) ==
    IF Len(races) = 0 THEN <<>>
    ELSE [index \in 1..Len(races) |-> PlanOf(races, index, bestVmax, age)]

\* the most races of a calendar
MaxRaces == 3

\* days until a race, on both sides of every phase threshold
RaceDays == {2, 7, 14, 15, 28, 29, 40, 60}

RaceDistances == {60, 100, 150, 200, 300, 400, 800}

\* the k-th race of a calendar; later races are 200 m races
RaceEvent(k, distanceM, daysUntil) ==
    [id        |-> <<"r1", "r2", "r3", "r4", "r5">>[k],
     name      |-> <<"Meet A", "Meet B", "Meet C", "Meet D", "Meet E">>[k],
     date      |-> <<"2026-06-01", "2026-06-02", "2026-06-03", "2026-06-04",
                     "2026-06-05">>[k],
     distanceM |-> distanceM, daysUntil |-> daysUntil]

\* calendars of up to MaxRaces races, sorted nearest-first or not
RECURSIVE LaterRaces(_, _)
LaterRaces(k, n) ==
    IF n = 0 THEN {<<>>}
    ELSE {<<>>} \cup
         { <<RaceEvent(k, 200, d)>> \o rest :
             d \in RaceDays, rest \in LaterRaces(k + 1, n - 1) }

Calendars ==
    {<<>>} \cup
    { <<RaceEvent(1, m, d)>> \o rest :
        m \in RaceDistances, d \in RaceDays, rest \in LaterRaces(2, MaxRaces - 1) }

(***************************************************************************)
(* The static objects that a result can share with the class: the sessions *)
(* array of DEFERRED_PHASE, which { ...this.DEFERRED_PHASE } copies by     *)
(* reference, and the Exercise objects of the three exercise lists, which  *)
(* [...this.FRESH_EXERCISES] copies by reference into a new array.         *)
(* getPhase copies the sessions array of a phase and every other field is  *)
(* a string or a number, so nothing of PHASES is shared.                   *)
(***************************************************************************)
\* the static objects as the classes are loaded
StaticsLoaded ==
    /\ statics = [deferredSessions |-> DEFERRED_PHASE.sessions,
                  exercises |-> [fresh    |-> FRESH_EXERCISES,
                                 tired    |-> TIRED_EXERCISES,
                                 fatigued |-> FATIGUED_EXERCISES]]
    /\ held = {}
    /\ results = <<>>
    /\ mutations = 0

\* getPrescription(tsb) with the static objects as they are now
getPrescriptionIn(st, tsb) ==
    LET base == getPrescription(tsb)
    IN  [base EXCEPT !.exercises = st.exercises[base.zone]]

\* buildMultiRacePlans(races, bestVmax, age) with the static objects as they
\* are now: the current phase of a deferred race shares DEFERRED_PHASE's
\* sessions
buildMultiRacePlansIn(st, races, bestVmax, age) ==
    LET plans == buildMultiRacePlans(races, bestVmax, age)
    IN  [index \in DOMAIN plans |->
            IF index > 1 /\ races[1].daysUntil <= 14
            THEN [plans[index] EXCEPT
                    !.currentPhase.sessions = st.deferredSessions]
            ELSE plans[index]]

(***************************************************************************)
(* One call: the arguments are drawn in Init, the action applies the       *)
(* operation.                                                              *)
(***************************************************************************)
InitParse == op = "parseTrackSession" /\ args \in [activity : Activities]

InitNFI ==
    op = "calculateNFI" /\ args \in [currentVmax : Vmaxes, avgVmax : Vmaxes]

InitStatus == op = "getNFIStatus" /\ args \in [nfi : NFIs]

InitSRS ==
    /\ op \in {"calculateSRS", "calculateFreshnessAdjustedSRS"}
    /\ args \in [hrv : HRVs, tsb : TSBs, nfi : NFIs]

InitSmart ==
    /\ op = "getSmartRecoveryWindow"
    /\ args \in [age : Ages, hrv : HRVs, tsb : TSBs, nfi : NFIs]

InitStale ==
    op = "isStaleVmax" /\ args \in [nfiStatus : Bands, context : Contexts]

InitWindow ==
    op = "getRecoveryWindow" /\ args \in [age : WindowAges, srs : SRSs]

InitReadiness ==
    /\ op = "getReadinessModifier"
    /\ args \in [nfi : ReadinessNFIs, tsb : ReadinessTSBs]

InitProfile ==
    /\ op = "buildTrainingProfile"
    /\ args \in [intervals : TrainingIntervals, peakVmax : PeakVmaxes]

InitFractions ==
    /\ op = "getDynamicSustainFractions"
    /\ args \in [profile : Profiles]

InitEstimate ==
    /\ op = "estimate"
    /\ args \in [input : EstimatorInputs]

InitGenerate ==
    /\ op = "generate"
    /\ args \in [nfiStatus : Bands, nfi : NFIs, context : Contexts]

InitStrength ==
    /\ op = "getStrengthPrescription"
    /\ args \in [tsb : TSBs]

InitPrescription ==
    /\ op = "getPrescription"
    /\ args \in [tsb : TSBs]

InitRecovery ==
    /\ op = "recoveryDays"
    /\ args \in [distanceM : RaceDistances \cup {0, 99, 101, 199, 201, 399, 401}]

InitPlans ==
    /\ op = "buildMultiRacePlans"
    /\ args \in [races : Calendars, bestVmax : {0, 10000}, age : {45}]

Init ==
    /\ pc = "call"
    /\ ret = 0
    /\ NoWebhook
    /\ TimersMounted
    /\ SignedOut
    /\ StaticsLoaded
    /\ \/ InitParse
       \/ InitNFI
       \/ InitStatus
       \/ InitSRS
       \/ InitSmart
       \/ InitStale
       \/ InitWindow
       \/ InitReadiness
       \/ InitProfile
       \/ InitFractions
       \/ InitEstimate
       \/ InitGenerate
       \/ InitStrength
       \/ InitPrescription
       \/ InitRecovery
       \/ InitPlans

Return(value) ==
    /\ pc = "call"
    /\ pc' = "done"
    /\ ret' = value
    /\ UNCHANGED <<op, args>>
    /\ CallFrame

ParseTrackSession ==
    /\ op = "parseTrackSession"
    /\ Return(parseTrackSession(args.activity))

CalculateNFI ==
    /\ op = "calculateNFI"
    /\ Return(calculateNFI(args.currentVmax, args.avgVmax))

GetNFIStatus ==
    /\ op = "getNFIStatus"
    /\ Return(getNFIStatus(args.nfi))

CalculateSRS ==
    /\ op = "calculateSRS"
    /\ Return(calculateSRS(args.hrv, args.tsb, args.nfi))

CalculateFreshnessAdjustedSRS ==
    /\ op = "calculateFreshnessAdjustedSRS"
    /\ Return(calculateFreshnessAdjustedSRS(args.hrv, args.tsb, args.nfi))

GetSmartRecoveryWindow ==
    /\ op = "getSmartRecoveryWindow"
    /\ Return(getSmartRecoveryWindow(args.age, args.hrv, args.tsb, args.nfi))

IsStaleVmax ==
    /\ op = "isStaleVmax"
    /\ Return(isStaleVmax(args.nfiStatus, args.context))

GetRecoveryWindow ==
    /\ op = "getRecoveryWindow"
    /\ Return(getRecoveryWindow(args.age, args.srs))

GetReadinessModifier ==
    /\ pc = "call"
    /\ op = "getReadinessModifier"
    /\ Return(getReadinessModifier(args.nfi, args.tsb))

BuildTrainingProfile ==
    /\ pc = "call"
    /\ op = "buildTrainingProfile"
    /\ Return(buildTrainingProfile(args.intervals, args.peakVmax))

GetDynamicSustainFractions ==
    /\ pc = "call"
    /\ op = "getDynamicSustainFractions"
    /\ Return(getDynamicSustainFractions(args.profile))

Estimate ==
    /\ pc = "call"
    /\ op = "estimate"
    /\ Return(estimate(args.input))

Generate ==
    /\ pc = "call"
    /\ op = "generate"
    /\ Return(generate(args.nfiStatus, args.nfi, args.context))

GetStrengthPrescription ==
    /\ pc = "call"
    /\ op = "getStrengthPrescription"
    /\ Return(getStrengthPrescription(args.tsb))

GetPrescription ==
    /\ pc = "call"
    /\ op = "getPrescription"
    /\ Return(getPrescription(args.tsb))

RecoveryDays ==
    /\ pc = "call"
    /\ op = "recoveryDays"
    /\ Return(recoveryDays(args.distanceM))

BuildMultiRacePlans ==
    /\ pc = "call"
    /\ op = "buildMultiRacePlans"
    /\ Return(buildMultiRacePlans(args.races, args.bestVmax, args.age))

Next ==
    \/ ParseTrackSession
    \/ CalculateNFI
    \/ GetNFIStatus
    \/ CalculateSRS
    \/ CalculateFreshnessAdjustedSRS
    \/ GetSmartRecoveryWindow
    \/ IsStaleVmax
    \/ GetRecoveryWindow
    \/ GetReadinessModifier
    \/ BuildTrainingProfile
    \/ GetDynamicSustainFractions
    \/ Estimate
    \/ Generate
    \/ GetStrengthPrescription
    \/ GetPrescription
    \/ RecoveryDays
    \/ BuildMultiRacePlans

Spec == Init /\ [][Next]_vars

Done(name) == pc = "done" /\ op = name

(***************************************************************************)
(* What the claims speak of: the maximal runs of moving samples of the     *)
(* stream that was parsed, stated from the stream alone.                   *)
(***************************************************************************)
CallStream ==
    IF "velocity_smooth" \in DOMAIN args.activity
    THEN args.activity.velocity_smooth ELSE <<>>

\* s..e is a maximal run of consecutive samples >= 1.0 m/s
IsRun(stream, s, e) ==
    /\ s <= e
    /\ \A j \in s..e : stream[j] >= 1000
    /\ s = 1 \/ stream[s - 1] < 1000
    /\ e = Len(stream) \/ stream[e + 1] < 1000

Runs(stream) ==
    {r \in (1..Len(stream)) \X (1..Len(stream)) : IsRun(stream, r[1], r[2])}

RunSamples(stream, r) == SubSeq(stream, r[1], r[2])

\* the runs whose sample sum is below 10 m, and the others
ShortRuns(stream) ==
    {r \in Runs(stream) : SumSeq(RunSamples(stream, r)) < 10000}

LongRuns(stream) == Runs(stream) \ ShortRuns(stream)

\* the k-th long run in stream order
NthLongRun(stream, k) ==
    CHOOSE r \in LongRuns(stream) :
        Cardinality({q \in LongRuns(stream) : q[1] < r[1]}) = k - 1

SetMax(S) == CHOOSE x \in S : \A y \in S : y <= x

\* the band of an emitted distance, in whole metres
BandOf(metres) ==
    IF metres <= 40 THEN "Acceleration"
    ELSE IF metres <= 80 THEN "MaxVelocity"
    ELSE IF metres <= 150 THEN "SpeedEndurance"
    ELSE "SpecialEndurance"

\* the largest mean over the windows of min(3, length) consecutive samples,
\* rounded to 2 decimals, in 1/6000 m/s
RoundedBestWindowMean(burst) ==
    LET w == Min2(3, Len(burst))
        best == SetMax({SumSeq(SubSeq(burst, i, i + w - 1)) :
                            i \in 1..(Len(burst) - w + 1)})
    IN  60 * ToFixed(best, 1000 * w, 100)

\* a rational <<num, den>>, den > 0, within [0, 100]
Within0To100(q) == q[1] >= 0 /\ q[1] <= 100 * q[2]

\* the stale-signal condition of a status band and a TSB
StaleSignal(band, tsb) == band \in {"amber", "red"} /\ tsb >= 0

(***************************************************************************)
(* The claims.                                                             *)
(***************************************************************************)

\* C1: every interval parseTrackSession returns is classified by the band
\* its emitted integer distance falls in: Acceleration for <= 40 m,
\* MaxVelocity for 41-80 m, SpeedEndurance for 81-150 m, SpecialEndurance
\* above 150 m.
C1_TypeIsBandOfEmittedDistance ==
    Done("parseTrackSession") =>
        \A k \in DOMAIN ret : ret[k].type = BandOf(ret[k].distance)

\* C2: every interval parseTrackSession returns has distance >= 10 m, and a
\* run of moving samples whose sum is below 10 m produces no interval: there
\* are no more intervals than runs of at least 10 m.
C2_NoIntervalBelowMinRepDistance ==
    Done("parseTrackSession") =>
        /\ \A k \in DOMAIN ret : ret[k].distance >= 10
        /\ Len(ret) <= Cardinality(LongRuns(CallStream))

C2_Witness ==
    /\ Done("parseTrackSession")
    /\ ShortRuns(CallStream) # {}
    /\ Len(ret) = 1
    /\ ret[1].distance = 20

\* C3: for a burst of any length >= 1, the flyingVelocity of its interval is
\* the largest mean over the windows of min(3, length) consecutive samples
\* of the burst, rounded to 2 decimals.
C3_FlyingVelocityIsRoundedBestWindowMean ==
    Done("parseTrackSession") =>
        \A k \in DOMAIN ret :
            k <= Cardinality(LongRuns(CallStream)) =>
                ret[k].flyingVelocity =
                    RoundedBestWindowMean(
                        RunSamples(CallStream, NthLongRun(CallStream, k)))

\* C4: parseTrackSession returns exactly one interval for each maximal run
\* of samples >= 1.0 m/s whose sum is >= 10 m, in stream order, and nothing
\* else; a run that reaches the end of the stream is closed as if one
\* below-threshold sample followed; an empty or missing stream yields the
\* empty list.
C4_OneIntervalPerLongRunInOrder ==
    Done("parseTrackSession") =>
        /\ Len(ret) = Cardinality(LongRuns(CallStream))
        /\ \A k \in DOMAIN ret :
               LET burst == RunSamples(CallStream, NthLongRun(CallStream, k))
               IN  /\ ret[k].duration = Len(burst)
                   /\ ret[k].vMax = SetMax({burst[j] : j \in DOMAIN burst})
                   /\ ret[k].distance = MathRound(SumSeq(burst), 1000)
        /\ ret = parseTrackSession(
                     [id |-> 1, velocity_smooth |-> Append(CallStream, 0)])
        /\ CallStream = <<>> => ret = <<>>

C4_Witness ==
    /\ Done("parseTrackSession")
    /\ Len(CallStream) = MaxLen
    /\ CallStream[Len(CallStream)] >= 1000
    /\ Len(ret) = 2
    /\ ret[1].vMax > ret[2].vMax

\* C5: calculateSRS returns an integer in [0, 100] for every HRV pair (also
\* with avgHRV7d <= 0), TSB and fatigue index, each of the three sub-scores
\* being within [0, 100].
C5_SRSWithin0To100 ==
    Done("calculateSRS") =>
        /\ ret \in 0..100
        /\ Within0To100(hrvScore(args.hrv))
        /\ Within0To100(tsbScore(args.tsb))
        /\ Within0To100(nfiScore(args.nfi))

C5_Witness ==
    /\ Done("calculateSRS")
    /\ args.hrv.currentHRV > 2 * args.hrv.avgHRV7d
    /\ args.hrv.avgHRV7d > 0
    /\ args.tsb > 200
    /\ args.nfi > 10000
    /\ ret = 100

\* C6: for every currentPeak and every baselinePeak <= 0, calculateNFI
\* returns exactly 1.0.
C6_NFIIsOneWithoutBaseline ==
    Done("calculateNFI") /\ args.avgVmax <= 0 => ret = 10000

C6_Witness ==
    /\ Done("calculateNFI")
    /\ args.avgVmax < 0
    /\ args.currentVmax > 0
    /\ args.currentVmax # -args.avgVmax
    /\ ret = 10000

\* C7: getNFIStatus maps every fatigue index to exactly one band: green iff
\* index > 0.97, amber iff 0.94 <= index <= 0.97, red iff index < 0.94.
C7_StatusBands ==
    Done("getNFIStatus") =>
        /\ ret \in Bands
        /\ ret = "green" <=> args.nfi > 9700
        /\ ret = "amber" <=> (args.nfi >= 9400 /\ args.nfi <= 9700)
        /\ ret = "red" <=> args.nfi < 9400

C7_Witness ==
    /\ Done("getNFIStatus")
    /\ args.nfi = 9700
    /\ ret = "amber"

\* C8: with a context supplied, isStaleVmax(band, {tsb}) is true exactly
\* when band is amber or red and tsb >= 0; and the staleVmax flag of
\* getSmartRecoveryWindow equals isStaleVmax(getNFIStatus(nfi), {tsb}).
C8_StaleExactlyWhenLowBandAndFreshTSB ==
    /\ Done("isStaleVmax") /\ args.context # UNDEFINED =>
           ret = StaleSignal(args.nfiStatus, args.context.tsb)
    /\ Done("getSmartRecoveryWindow") =>
           /\ ret.staleVmax =
                  isStaleVmax(getNFIStatus(args.nfi), [tsb |-> args.tsb])
           /\ ret.staleVmax = StaleSignal(getNFIStatus(args.nfi), args.tsb)

C8_Witness ==
    /\ Done("isStaleVmax")
    /\ args.context # UNDEFINED
    /\ args.context.tsb = 0
    /\ args.nfiStatus = "amber"
    /\ ret = TRUE

\* C9: calculateFreshnessAdjustedSRS(hrv, tsb, nfi) equals
\* calculateSRS(hrv, tsb, 1.0) when the stale-signal condition holds for
\* (getNFIStatus(nfi), tsb), and calculateSRS(hrv, tsb, nfi) otherwise.
C9_AdjustedSRSNeutralisesStaleIndex ==
    Done("calculateFreshnessAdjustedSRS") =>
        ret = IF StaleSignal(getNFIStatus(args.nfi), args.tsb)
              THEN calculateSRS(args.hrv, args.tsb, 10000)
              ELSE calculateSRS(args.hrv, args.tsb, args.nfi)

C9_Witness ==
    /\ Done("calculateFreshnessAdjustedSRS")
    /\ StaleSignal(getNFIStatus(args.nfi), args.tsb)
    /\ getNFIStatus(args.nfi) = "amber"
    /\ ret > calculateSRS(args.hrv, args.tsb, args.nfi)

\* C10: the hours of getSmartRecoveryWindow equal
\* getRecoveryWindow(age, calculateSRS(hrv, tsb, nfi)) when the signal is
\* not stale, and are strictly smaller than that window when it is stale.
C10_SmartWindowAgainstStandardWindow ==
    Done("getSmartRecoveryWindow") =>
        LET standard ==
                getRecoveryWindow(args.age,
                                  calculateSRS(args.hrv, args.tsb, args.nfi))
        IN  IF StaleSignal(getNFIStatus(args.nfi), args.tsb)
            THEN ret.hours < standard
            ELSE ret.hours = standard

C10_Witness ==
    /\ Done("getSmartRecoveryWindow")
    /\ ret.staleVmax
    /\ args.nfi = 9700
    /\ args.hrv.avgHRV7d <= 0
    /\ ret.hours < getRecoveryWindow(args.age,
                       calculateSRS(args.hrv, args.tsb, args.nfi))

\* C11: getRecoveryWindow is monotonic: for a fixed recovery score it never
\* decreases when age increases, and for a fixed age it never increases when
\* the recovery score increases.
C11_RecoveryWindowMonotonic ==
    Done("getRecoveryWindow") =>
        /\ \A older \in WindowAges :
               older >= args.age => getRecoveryWindow(older, args.srs) >= ret
        /\ \A higher \in SRSs :
               higher >= args.srs => getRecoveryWindow(args.age, higher) <= ret

C11_Witness ==
    /\ Done("getRecoveryWindow")
    /\ args.age = 41
    /\ args.srs = 50
    /\ ret > getRecoveryWindow(40, 50)
    /\ ret > getRecoveryWindow(41, 53)
    /\ ret = 78


\* C14: for every fatigue index and every training stress balance the
\* readiness modifier lies within [0.95, 1.03].
C14_ReadinessModifierWithinClamp ==
    Done("getReadinessModifier") => ret >= 950000 /\ ret <= 1030000

\* a fatigue index of 2.0 with a TSB of 25: 1 + 0.33 + 0.01 is cut to 1.03
C14_Witness ==
    /\ Done("getReadinessModifier")
    /\ args.nfi = 20000
    /\ args.tsb = 250
    /\ 1000000 + (args.nfi - 10000) * 33 + 10000 = 1340000
    /\ ret = 1030000


\* C18: for every collection of TrackIntervals (distance >= 10, duration
\* >= 1) and every reference peak velocity, buildTrainingProfile returns a
\* speedEnduranceIndex within [0, 1], and 0 when no interval is of an
\* endurance class.
C18_SpeedEnduranceIndexWithinUnit ==
    Done("buildTrainingProfile") =>
        /\ ret.speedEnduranceIndex >= 0
        /\ ret.speedEnduranceIndex <= 1000000
        /\ (\A k \in 1..Len(args.intervals) :
                args.intervals[k].type
                    \notin {"SpeedEndurance", "SpecialEndurance"})
               => ret.speedEnduranceIndex = 0


\* C15: for every training profile, or none, the 100 m sustain fraction lies
\* within [0.91, 0.95], the 200 m fraction within [0.82, 0.93] and the 400 m
\* fraction within [0.70, 0.85].
C15_SustainFractionsWithinBounds ==
    Done("getDynamicSustainFractions") =>
        /\ ret[100] >= 910000 /\ ret[100] <= 950000
        /\ ret[200] >= 820000 /\ ret[200] <= 930000
        /\ ret[400] >= 700000 /\ ret[400] <= 850000

\* a profile of two slow endurance runs (index 0.5): 0.78 - 0.35 * 0.7 and
\* 0.88 - 0.35 * 0.5 are both raised to the floors
C15_Witness ==
    /\ Done("getDynamicSustainFractions")
    /\ args.profile # NULL
    /\ args.profile.seIntervalCount >= 2
    /\ args.profile.speedEnduranceIndex = 500000
    /\ BASE_SPEED_SUSTAIN[400]
         + ToFixed((args.profile.speedEnduranceIndex - 850000) * 7, 10, 1)
         < 700000
    /\ ret[400] = 700000
    /\ ret[200] = 820000


\* the peak velocity of the input of the call: the larger of bestVmax60d and
\* avgVmax
CallPeak == Max2(args.input.bestVmax60d, args.input.avgVmax)

PhaseSum(e) ==
    e.phases.reaction + e.phases.acceleration + e.phases.maxVelocity
      + e.phases.deceleration

\* C12: whenever the peak velocity is <= 0, all three predictions are the
\* 'no data' sentinel: display '--', predicted time 0 and all four phase
\* times 0.
C12_NoDataSentinelWithoutPeak ==
    (Done("estimate") /\ CallPeak <= 0) =>
        \A d \in {100, 200, 400} :
            /\ ret[d].display = [text |-> "--"]
            /\ ret[d].predictedTime = 0
            /\ ret[d].phases = [reaction |-> 0, acceleration |-> 0,
                                maxVelocity |-> 0, deceleration |-> 0]

\* both velocities negative, with a training history that would otherwise
\* give a profile
C12_Witness ==
    /\ Done("estimate")
    /\ args.input.bestVmax60d = -1000
    /\ args.input.avgVmax = -500
    /\ "trainingIntervals" \in DOMAIN args.input
    /\ Len(args.input.trainingIntervals) > 0
    /\ ret[400].display = [text |-> "--"]
    /\ PhaseSum(ret[400]) = 0

\* C13 as stated: for every input, the 100 m predicted time is strictly less
\* than the 200 m predicted time, which is strictly less than the 400 m
\* predicted time.
C13_StrictlyOrderedForEveryInput ==
    Done("estimate") =>
        /\ ret[100].predictedTime < ret[200].predictedTime
        /\ ret[200].predictedTime < ret[400].predictedTime

\* C13 amended: for every input whose peak velocity is positive and at most
\* 100 m/s, the 100 m predicted time is strictly less than the 200 m
\* predicted time, which is strictly less than the 400 m predicted time.
C13_StrictlyOrderedWithPositivePeak ==
    (Done("estimate") /\ CallPeak > 0 /\ CallPeak <= 100000) =>
        /\ ret[100].predictedTime < ret[200].predictedTime
        /\ ret[200].predictedTime < ret[400].predictedTime

\* the fastest input drawn, where the three times are closest
C13_Witness ==
    /\ Done("estimate")
    /\ CallPeak = 100000
    /\ args.input.age = 30
    /\ ret[100].predictedTime > 0
    /\ ret[100].predictedTime < ret[200].predictedTime
    /\ ret[400].predictedTime - ret[100].predictedTime < 500

\* C16: for every input whose peak velocity is > 0, the confidence is 'high'
\* exactly when activityCount >= 10, 'moderate' exactly when
\* 3 <= activityCount < 10, and 'low' exactly when activityCount < 3.
C16_ConfidenceByActivityCount ==
    (Done("estimate") /\ CallPeak > 0) =>
        \A d \in {100, 200, 400} :
            /\ ret[d].confidence = "high" <=> args.input.activityCount >= 10
            /\ ret[d].confidence = "moderate"
                 <=> (args.input.activityCount >= 3
                        /\ args.input.activityCount < 10)
            /\ ret[d].confidence = "low" <=> args.input.activityCount < 3

\* C17: for every estimate with positive peak velocity, with or without a
\* training profile, the sum of the four phase times is greater than 60%
\* and less than 140% of the predicted time.
C17_PhaseSumNearPredictedTime ==
    (Done("estimate") /\ CallPeak > 0) =>
        \A d \in {100, 200, 400} :
            /\ 100 * PhaseSum(ret[d]) > 60 * ret[d].predictedTime
            /\ 100 * PhaseSum(ret[d]) < 140 * ret[d].predictedTime


\* C19: generate returns the re-activation workout exactly when a context is
\* supplied, the band is amber or red and context.tsb >= 0, whichever of the
\* two bands it is; in every other case it returns the max-velocity session
\* for green, the technical session for amber and the recovery session, with
\* zero sprint volume, for red.
C19_WorkoutByBandAndFreshness ==
    Done("generate") =>
        LET stale == /\ args.context # UNDEFINED
                     /\ StaleSignal(args.nfiStatus, args.context.tsb)
        IN  /\ (ret.name = "Neural Re-Activation - Restore Sprint Speed")
                 <=> stale
            /\ stale => ret = reactivationWorkout(args.nfi, args.context.tsb)
            /\ (~stale /\ args.nfiStatus = "green")
                 => ret = greenWorkout(args.nfi)
            /\ (~stale /\ args.nfiStatus = "amber")
                 => ret = amberWorkout(args.nfi)
            /\ (~stale /\ args.nfiStatus = "red")
                 => /\ ret = redWorkout(args.nfi)
                    /\ ret.totalSprintVolume = "0m sprint distance"

\* an amber band with a TSB of exactly 0: the re-activation, not the
\* technical session
C19_Witness ==
    /\ Done("generate")
    /\ args.nfiStatus = "amber"
    /\ args.context # UNDEFINED
    /\ args.context.tsb = 0
    /\ ret.name = "Neural Re-Activation - Restore Sprint Speed"
    /\ ret.mainSet[2].name = "Flying 20s"


\* the exercise list of a zone
ZoneExercises(zone) ==
    CASE zone = "fresh"    -> FRESH_EXERCISES
      [] zone = "tired"    -> TIRED_EXERCISES
      [] zone = "fatigued" -> FATIGUED_EXERCISES

\* the zone the claim gives a TSB (in tenths)
ZoneOfTSB(tsb) ==
    IF tsb >= 0 THEN "fresh" ELSE IF tsb >= -200 THEN "tired" ELSE "fatigued"

\* C20: for every training stress balance exactly one strength zone is
\* selected, fresh/high iff tsb >= 0, tired/moderate iff -20 <= tsb < 0,
\* fatigued/none iff tsb < -20; and getPrescription(tsb) returns the exercise
\* list of that same zone.
C20_StrengthZoneAndExercises ==
    /\ Done("getStrengthPrescription") =>
           /\ (ret.zone = "fresh" /\ ret.intensity = "high")
                <=> args.tsb >= 0
           /\ (ret.zone = "tired" /\ ret.intensity = "moderate")
                <=> (args.tsb >= -200 /\ args.tsb < 0)
           /\ (ret.zone = "fatigued" /\ ret.intensity = "none")
                <=> args.tsb < -200
           /\ ret.zone \in {"fresh", "tired", "fatigued"}
    /\ Done("getPrescription") =>
           /\ ret.zone = ZoneOfTSB(args.tsb)
           /\ ret.exercises = ZoneExercises(ZoneOfTSB(args.tsb))

\* a TSB of exactly -20: the tired zone and its plyometrics
C20_Witness ==
    /\ Done("getPrescription")
    /\ args.tsb = -200
    /\ ret.zone = "tired"
    /\ ret.exercises[1].name = "Pogo Jumps"


\* C27: for every interval returned by parseTrackSession, flyingVelocity
\* never exceeds the interval's peak velocity vMax (flyingVelocity in 1/6000
\* m/s against vMax in 1/1000 m/s).
C27_FlyingVelocityAtMostVmax ==
    Done("parseTrackSession") =>
        \A k \in DOMAIN ret : ret[k].flyingVelocity <= ret[k].vMax * 6


\* C26: the status of the workout that generate returns, and the status label
\* of its text description, always equal the band passed in, on every pathway,
\* the re-activation included.
C26_WorkoutStatusIsBandPassedIn ==
    Done("generate") =>
        /\ ret.status = args.nfiStatus
        /\ ret.workoutDescription.statusLabel
             = (CASE args.nfiStatus = "green" -> "GREEN"
                  [] args.nfiStatus = "amber" -> "AMBER"
                  [] args.nfiStatus = "red"   -> "RED")


\* the label of the phase the thresholds give a number of days
PhaseLabelFor(days) ==
    IF days <= 3 THEN "Race Prep"
    ELSE IF days <= 7 THEN "Final Taper"
    ELSE IF days <= 14 THEN "Race-Specific"
    ELSE IF days <= 28 THEN "Sharpen"
    ELSE "Build"

\* the races are sorted nearest-first
SortedNearestFirst(races) ==
    \A i, j \in 1..Len(races) :
        i < j => races[i].daysUntil <= races[j].daysUntil

C22_SharedBuildWhenNearestBeyond28 ==
    (/\ Done("buildMultiRacePlans")
     /\ Len(args.races) > 0
     /\ SortedNearestFirst(args.races)
     /\ args.races[1].daysUntil > 28) =>
        \A k \in 2..Len(ret) :
            /\ ret[k].currentPhase.label = "Build"
            /\ ret[k].currentPhase.label = ret[1].currentPhase.label
            /\ ret[k].currentPhase.strengthNote
                 = getPhase(args.races[k].daysUntil).strengthNote
                     \o <<COMPLEMENTARY_BUILD_NOTE>>
            /\ ~ret[k].priorRaceContext.isConstrained

\* the nearest race in 29 days, two later ones in 40 and 60 days
C22_Witness ==
    /\ Done("buildMultiRacePlans")
    /\ Len(args.races) = 3
    /\ args.races[1].daysUntil = 29
    /\ args.races[2].daysUntil = 40
    /\ args.races[3].daysUntil = 60
    /\ ret[3].currentPhase.label = "Build"
    /\ ret[3].currentPhase.strengthNote[2] = COMPLEMENTARY_BUILD_NOTE

\* C23 as stated: recoveryDays(distance) is 4 for a 100 m event, 5 for a
\* 200 m event, 7 for a 400 m event, and 9 for every other distance.
C23_NineForEveryOtherDistance ==
    Done("recoveryDays") =>
        ret = (CASE args.distanceM = 100 -> 4
                 [] args.distanceM = 200 -> 5
                 [] args.distanceM = 400 -> 7
                 [] OTHER -> 9)

\* C23 amended: recoveryDays(distance) is 4 for every distance up to 100 m,
\* 5 above 100 m and up to 200 m, 7 above 200 m and up to 400 m, and 9 above
\* 400 m.
C23_RecoveryDaysByBand ==
    Done("recoveryDays") =>
        /\ args.distanceM <= 100 => ret = 4
        /\ (args.distanceM > 100 /\ args.distanceM <= 200) => ret = 5
        /\ (args.distanceM > 200 /\ args.distanceM <= 400) => ret = 7
        /\ args.distanceM > 400 => ret = 9

\* a 300 m event, between the named distances: 7 days, not 9
C23_Witness ==
    /\ Done("recoveryDays")
    /\ args.distanceM = 300
    /\ ret = 7


(***************************************************************************)
(* The webhook handler (api/webhook): one request, from its arrival to the *)
(* response.  The handler runs from one await to the next in one step;     *)
(* what the remote service answers to each fetch is chosen at the step     *)
(* that resumes the handler: the fetch rejects (network error, or a body   *)
(* that is not JSON), or resolves to a response that is ok or not, with    *)
(* its JSON body.  The log lines the handler writes are left out.  A field *)
(* of the request body is kept by the kind of its value.                   *)
(***************************************************************************)
Kinds == {"string", "number", "missing"}

Requests ==
    [method : {"GET", "POST"},
     body   : {UNDEFINED} \cup [id : Kinds, athleteId : Kinds, apiKey : Kinds]]

\* WebhookBodySchema.safeParse(body).success
WebhookBodySchema(body) ==
    /\ body # UNDEFINED
    /\ body.id = "string"
    /\ body.athleteId = "string"
    /\ body.apiKey = "string"

\* IntervalsActivitySchema without the literal 'Run' of type
IntervalsActivitySchema_AnyType(activity) ==
    /\ {"id", "type", "max_speed", "icu_training_load", "icu_atl", "icu_ctl"}
         \subseteq DOMAIN activity

\* IntervalsActivitySchema.safeParse(activity).success: the keys required
\* and the literal type; the values drawn have the types of the schema
IntervalsActivitySchema(activity) ==
    /\ {"id", "type", "max_speed", "icu_training_load", "icu_atl", "icu_ctl"}
         \subseteq DOMAIN activity
    /\ activity.type = "Run"

\* IntervalsCustomStreams.generateNFIStreamPayload(nfiValues)
generateNFIStreamPayload(nfiValues) ==
    [name |-> "Neural Fatigue Index", short_name |-> "NFI",
     units |-> "index", data |-> nfiValues, color |-> "#FF4500"]

\* what the remote service may answer
Reply(rejected, ok, json) == [rejected |-> rejected, ok |-> ok, json |-> json]

Failures == {Reply(TRUE, FALSE, <<>>), Reply(FALSE, FALSE, <<>>)}

RunActivity ==
    [id |-> "act_001", type |-> "Run", max_speed |-> 9800,
     icu_training_load |-> 50, icu_atl |-> 40, icu_ctl |-> 45]

RawActivities ==
    { RunActivity,
      [id |-> "act_001", type |-> "Run", max_speed |-> 9800,
       icu_training_load |-> 50, icu_atl |-> 40, icu_ctl |-> 45,
       velocity_smooth |-> <<9500, 9800, 9700, 9600>>],
      [id |-> "act_001", type |-> "Ride", max_speed |-> 9800,
       icu_training_load |-> 50, icu_atl |-> 40, icu_ctl |-> 45],
      [id |-> "act_001", type |-> "Run",
       icu_training_load |-> 50, icu_atl |-> 40, icu_ctl |-> 45] }

StreamsBodies ==
    { <<>>,
      [velocity_smooth |-> [data |-> <<>>]],
      [velocity_smooth |-> [data |-> <<900, 9500, 9800, 9700>>]] }

RecentBodies ==
    { <<>>,
      << [type |-> "Run", id |-> "act_001", max_speed |-> 9800] >>,
      << [type |-> "Run", id |-> "act_090", max_speed |-> 9500],
         [type |-> "Run", id |-> "act_091", max_speed |-> 9700],
         [type |-> "Ride", id |-> "act_092", max_speed |-> 15000],
         [type |-> "Run", id |-> "act_093"],
         [type |-> "Run", id |-> "act_094", max_speed |-> 9300] >> }

\* a fetch call, as logged when it is issued
Fetch(method, url) == [method |-> method, url |-> url, reply |-> "pending"]

\* the last fetch issued got its reply
Replied(reply) ==
    [fetches EXCEPT ![Len(fetches)].reply =
        IF reply.rejected THEN "rejected"
        ELSE IF reply.ok THEN "ok" ELSE "not ok"]

\* return res.status(code).json(body) or .send(body)
Respond(code, body) ==
    /\ res' = [status |-> code, body |-> body]
    /\ hpc' = "returned"

\* the catch block
Catch(reply) ==
    /\ Respond(500, [error |-> "Internal server error"])
    /\ fetches' = Replied(reply)
    /\ UNCHANGED <<req, locals>>

WebhookInit ==
    /\ req \in Requests
    /\ res = <<>>
    /\ fetches = <<>>
    /\ locals = <<>>
    /\ hpc = "start"
    /\ NoCall
    /\ TimersMounted
    /\ SignedOut
    /\ StaticsLoaded

\* from the arrival of the request to the first await
HandlerStart ==
    /\ hpc = "start"
    /\ IF req.method # "POST"
       THEN /\ Respond(405, "Method Not Allowed")
            /\ UNCHANGED <<fetches, locals>>
       ELSE IF ~WebhookBodySchema(req.body)
       THEN /\ Respond(400,
                  [error |-> "Missing required fields: id, athleteId, apiKey"])
            /\ UNCHANGED <<fetches, locals>>
       ELSE /\ locals' = [id |-> "act_001", athleteId |-> "i12345",
                          apiKey |-> "test_key"]
            /\ fetches' = <<Fetch("GET", "activity/act_001")>>
            /\ hpc' = "activity"
            /\ UNCHANGED res
    /\ UNCHANGED <<req, OutsideWebhook>>

\* the activity fetch settles: 502 when not ok, else the streams fetch
ActivityFetched ==
    /\ hpc = "activity"
    /\ \E reply \in Failures \cup {Reply(FALSE, TRUE, a) : a \in RawActivities} :
         IF reply.rejected THEN Catch(reply)
         ELSE IF ~reply.ok
         THEN /\ Respond(502,
                    [error |-> "Failed to fetch activity from Intervals.icu"])
              /\ fetches' = Replied(reply)
              /\ UNCHANGED <<req, locals>>
         ELSE /\ locals' = locals @@ [rawActivity |-> reply.json]
              /\ fetches' =
                    Append(Replied(reply), Fetch("GET", "activity/act_001/streams"))
              /\ hpc' = "streams"
              /\ UNCHANGED <<req, res>>
    /\ UNCHANGED OutsideWebhook

\* streams.velocity_smooth?.data || rawActivity.velocity_smooth || []
VelocitySmooth(streams, rawActivity) ==
    IF /\ "velocity_smooth" \in DOMAIN streams
       /\ "data" \in DOMAIN streams.velocity_smooth
    THEN streams.velocity_smooth.data
    ELSE IF "velocity_smooth" \in DOMAIN rawActivity
    THEN rawActivity.velocity_smooth
    ELSE <<>>

\* { ...rawActivity, velocity_smooth: velocitySmooth }
WithVelocity(rawActivity, velocitySmooth) ==
    [k \in DOMAIN rawActivity \cup {"velocity_smooth"} |->
        IF k = "velocity_smooth" THEN velocitySmooth ELSE rawActivity[k]]

\* the streams fetch settles: validation, 422 or the parse and the fetch of
\* the recent activities
StreamsFetched ==
    /\ hpc = "streams"
    /\ \E reply \in Failures \cup {Reply(FALSE, TRUE, s) : s \in StreamsBodies} :
         IF reply.rejected THEN Catch(reply)
         ELSE LET streams == IF reply.ok THEN reply.json ELSE <<>>
                  velocitySmooth == VelocitySmooth(streams, locals.rawActivity)
                  activity == WithVelocity(locals.rawActivity, velocitySmooth)
              IN  IF ~IntervalsActivitySchema(activity)
                  THEN /\ Respond(422,
                             [error |-> "Activity data validation failed"])
                       /\ fetches' = Replied(reply)
                       /\ UNCHANGED <<req, locals>>
                  ELSE /\ locals' =
                             locals @@
                             [velocitySmooth |-> velocitySmooth,
                              parsed         |-> activity,
                              intervals      |-> parseTrackSession(activity),
                              todayVmax      |-> activity.max_speed]
                       /\ fetches' =
                             Append(Replied(reply),
                                    Fetch("GET", "athlete/i12345/activities"))
                       /\ hpc' = "recent"
                       /\ UNCHANGED <<req, res>>
    /\ UNCHANGED OutsideWebhook

\* recentActivities.filter(...).map((a) => a.max_speed)
RECURSIVE ValidVmaxes(_, _)
ValidVmaxes(recentActivities, id) ==
    IF recentActivities = <<>> THEN <<>>
    ELSE LET a == Head(recentActivities)
             rest == ValidVmaxes(Tail(recentActivities), id)
         IN  IF /\ a.type = "Run"
                /\ a.id # id
                /\ (IF "max_speed" \in DOMAIN a THEN a.max_speed ELSE 0) > 0
             THEN <<a.max_speed>> \o rest
             ELSE rest

\* calculateNFI(todayVmax, avgVmax) with avgVmax the mean of validVmaxes, or
\* todayVmax when there is none; the mean is kept as sum over count
BaselineNFI(todayVmax, validVmaxes) ==
    IF Len(validVmaxes) > 0
    THEN calculateNFI(todayVmax * Len(validVmaxes), SumSeq(validVmaxes))
    ELSE calculateNFI(todayVmax, todayVmax)

\* the fetch of the recent activities settles: the index, then the PUT
RecentFetched ==
    /\ hpc = "recent"
    /\ \E reply \in Failures \cup {Reply(FALSE, TRUE, r) : r \in RecentBodies} :
         IF reply.rejected THEN Catch(reply)
         ELSE LET recentActivities == IF reply.ok THEN reply.json ELSE <<>>
                  nfi == BaselineNFI(locals.todayVmax,
                                     ValidVmaxes(recentActivities, locals.id))
                  nfiPayload ==
                      generateNFIStreamPayload(
                          [i \in 1..Len(locals.velocitySmooth) |-> nfi])
              IN  /\ locals' = locals @@ [nfi |-> nfi]
                  /\ fetches' =
                        Append(Replied(reply),
                               [method |-> "PUT",
                                url    |-> "activity/act_001/streams",
                                body   |-> nfiPayload,
                                reply  |-> "pending"])
                  /\ hpc' = "put"
                  /\ UNCHANGED <<req, res>>
    /\ UNCHANGED OutsideWebhook

\* the PUT settles: the 200 response
PutSettled ==
    /\ hpc = "put"
    /\ \E reply \in Failures \cup {Reply(FALSE, TRUE, <<>>)} :
         IF reply.rejected THEN Catch(reply)
         ELSE /\ Respond(200,
                    [status       |-> "ok",
                     activityId   |-> locals.id,
                     nfi          |-> locals.nfi,
                     nfiStatus    |-> getNFIStatus(locals.nfi),
                     intervals    |-> Len(locals.intervals),
                     streamPushed |-> reply.ok])
              /\ fetches' = Replied(reply)
              /\ UNCHANGED <<req, locals>>
    /\ UNCHANGED OutsideWebhook

WebhookNext ==
    \/ HandlerStart
    \/ ActivityFetched
    \/ StreamsFetched
    \/ RecentFetched
    \/ PutSettled

WebhookSpec == WebhookInit /\ [][WebhookNext]_vars

\* the PUT calls issued so far
Puts == {i \in 1..Len(fetches) : fetches[i].method = "PUT"}

\* C25: the PUT write-back of the NFI stream is issued at most once per
\* request, and only after the request was a POST carrying id, athleteId and
\* apiKey, the activity fetch succeeded and the activity passed schema
\* validation; on every 405, 400, 502 and 422 outcome no PUT is issued.
C25_PutAtMostOnceAndOnlyWhenValidated ==
    hpc # "none" =>
        /\ Cardinality(Puts) <= 1
        /\ Puts # {} =>
              /\ req.method = "POST"
              /\ req.body # UNDEFINED
              /\ req.body.id = "string"
              /\ req.body.athleteId = "string"
              /\ req.body.apiKey = "string"
              /\ fetches[1].url = "activity/act_001"
              /\ fetches[1].reply = "ok"
              /\ "parsed" \in DOMAIN locals
              /\ locals.parsed.type = "Run"
              /\ "max_speed" \in DOMAIN locals.parsed
        /\ (res # <<>> /\ res.status \in {405, 400, 502, 422}) => Puts = {}

\* the full pipeline: three GETs, then the one PUT, then 200
C25_Witness ==
    /\ hpc = "returned"
    /\ res.status = 200
    /\ Len(fetches) = 4
    /\ Puts = {4}
    /\ fetches[4].reply = "ok"
    /\ Len(fetches[4].body.data) = 4
    /\ res.body.streamPushed


(***************************************************************************)
(* The guided timers of the recovery screen: the contrast-bath timer and   *)
(* the breathing timer.  Each is four pieces of React state, a Start /     *)
(* Pause / Resume button, a Reset button, and an effect that, while the    *)
(* timer runs, holds a one-second interval.  A tick applies the state      *)
(* updaters of the interval callback, each once, in one step; the effect's *)
(* cleanup clears the interval as soon as running is false, so a tick is   *)
(* possible exactly while the timer runs.  The vibration cues are left     *)
(* out.                                                                    *)
(***************************************************************************)
\* a number held in state that may also be null
Num(n) == [type |-> "number", value |-> n]

\* RecoveryModalities.getHydrotherapyProtocol('max-velocity'): the step
\* durations and the cycles
HYDROTHERAPY_MAX_VELOCITY ==
    [totalCycles |-> 4,
     steps |-> << [temperature |-> "hot",  durationSeconds |-> 180],
                  [temperature |-> "cold", durationSeconds |-> 60] >>]

\* RecoveryModalities.getBreathingProtocol()
BREATHING_90_90 ==
    [cycles |-> 6,
     steps |-> << [phase |-> "inhale", durationSeconds |-> 4],
                  [phase |-> "hold",   durationSeconds |-> 4],
                  [phase |-> "exhale", durationSeconds |-> 8],
                  [phase |-> "pause",  durationSeconds |-> 2] >>]

hydroGuide == HYDROTHERAPY_MAX_VELOCITY

breathingGuide == BREATHING_90_90

\* the cycles a timer is followed for beyond its protocol's total
MaxExtraCycles == 1

TimerInit ==
    /\ TimersMounted
    /\ NoCall
    /\ NoWebhook
    /\ SignedOut
    /\ StaticsLoaded

\* the Start / Resume button
startHydroTimer ==
    /\ ~hydroRunning
    /\ hydroTimerSec' =
          IF hydroTimerSec = NULL
          THEN Num(hydroGuide.steps[1].durationSeconds)
          ELSE hydroTimerSec
    /\ hydroRunning' = TRUE
    /\ UNCHANGED <<hydroStep, hydroCycle, hydroCounted, hydroLasted>>
    /\ UNCHANGED <<breathVars, OutsideTimers>>

\* the Pause button
PauseHydro ==
    /\ hydroRunning
    /\ hydroRunning' = FALSE
    /\ UNCHANGED <<hydroStep, hydroCycle, hydroTimerSec, hydroCounted,
                   hydroLasted>>
    /\ UNCHANGED <<breathVars, OutsideTimers>>

\* the Reset button
resetHydro ==
    /\ hydroRunning' = FALSE
    /\ hydroStep' = 0
    /\ hydroCycle' = 0
    /\ hydroTimerSec' = NULL
    /\ hydroCounted' = 0
    /\ hydroLasted' = <<>>
    /\ UNCHANGED <<breathVars, OutsideTimers>>

\* one call of the interval callback
HydroTick ==
    /\ hydroRunning
    /\ hydroCycle < hydroGuide.totalCycles + MaxExtraCycles
    /\ LET prev == hydroTimerSec
           nextStep == (hydroStep + 1) % Len(hydroGuide.steps)
           nextCycle == hydroCycle + 1
       IN  IF prev = NULL \/ prev.value <= 0
           THEN UNCHANGED hydroVars
           ELSE IF prev.value = 1
           THEN /\ hydroStep' = nextStep
                /\ hydroCycle' = IF nextStep = 0 THEN nextCycle ELSE hydroCycle
                /\ hydroRunning' =
                      ~(nextStep = 0 /\ nextCycle >= hydroGuide.totalCycles)
                /\ hydroTimerSec' = Num(hydroGuide.steps[1].durationSeconds)
                /\ hydroCounted' = 0
                /\ hydroLasted' =
                      [step |-> hydroStep, seconds |-> hydroCounted + 1]
           ELSE /\ hydroTimerSec' = Num(prev.value - 1)
                /\ hydroCounted' = hydroCounted + 1
                /\ UNCHANGED <<hydroStep, hydroCycle, hydroRunning,
                               hydroLasted>>
    /\ UNCHANGED <<breathVars, OutsideTimers>>

startBreathTimer ==
    /\ ~breathRunning
    /\ breathTimerSec' =
          IF breathTimerSec = NULL
          THEN Num(breathingGuide.steps[1].durationSeconds)
          ELSE breathTimerSec
    /\ breathRunning' = TRUE
    /\ UNCHANGED <<breathPhase, breathCycle, breathCounted, breathLasted>>
    /\ UNCHANGED <<hydroVars, OutsideTimers>>

PauseBreath ==
    /\ breathRunning
    /\ breathRunning' = FALSE
    /\ UNCHANGED <<breathPhase, breathCycle, breathTimerSec, breathCounted,
                   breathLasted>>
    /\ UNCHANGED <<hydroVars, OutsideTimers>>

resetBreath ==
    /\ breathRunning' = FALSE
    /\ breathPhase' = 0
    /\ breathCycle' = 0
    /\ breathTimerSec' = NULL
    /\ breathCounted' = 0
    /\ breathLasted' = <<>>
    /\ UNCHANGED <<hydroVars, OutsideTimers>>

BreathTick ==
    /\ breathRunning
    /\ breathCycle < breathingGuide.cycles + MaxExtraCycles
    /\ LET prev == breathTimerSec
           nextPhase == (breathPhase + 1) % Len(breathingGuide.steps)
           next == breathCycle + 1
       IN  IF prev = NULL \/ prev.value <= 0
           THEN UNCHANGED breathVars
           ELSE IF prev.value = 1
           THEN /\ breathPhase' = nextPhase
                /\ breathCycle' = IF nextPhase = 0 THEN next ELSE breathCycle
                /\ breathRunning' =
                      ~(nextPhase = 0 /\ next >= breathingGuide.cycles)
                /\ breathTimerSec' =
                      Num(breathingGuide.steps[1].durationSeconds)
                /\ breathCounted' = 0
                /\ breathLasted' =
                      [step |-> breathPhase, seconds |-> breathCounted + 1]
           ELSE /\ breathTimerSec' = Num(prev.value - 1)
                /\ breathCounted' = breathCounted + 1
                /\ UNCHANGED <<breathPhase, breathCycle, breathRunning,
                               breathLasted>>
    /\ UNCHANGED <<hydroVars, OutsideTimers>>

TimerNext ==
    \/ startHydroTimer
    \/ PauseHydro
    \/ resetHydro
    \/ HydroTick
    \/ startBreathTimer
    \/ PauseBreath
    \/ resetBreath
    \/ BreathTick

TimerSpec == TimerInit /\ [][TimerNext]_vars

\* C29: each step of the hydrotherapy timer, and of the breathing timer, is
\* counted down for exactly that step's own durationSeconds before the timer
\* advances to the next step.
C29_StepLastsItsOwnDuration ==
    /\ hydroLasted # <<>> =>
          hydroLasted.seconds =
              hydroGuide.steps[hydroLasted.step + 1].durationSeconds
    /\ breathLasted # <<>> =>
          breathLasted.seconds =
              breathingGuide.steps[breathLasted.step + 1].durationSeconds

\* C30: from the reset state, a timer that is started and never paused or
\* reset stops by itself when its completed cycles reach the protocol's total,
\* and the completed-cycle counter never exceeds that total.
C30_CycleNeverExceedsTotal ==
    /\ hydroCycle <= hydroGuide.totalCycles
    /\ breathCycle <= breathingGuide.cycles


(***************************************************************************)
(* The dashboard's data hook (useIntervalsData) under the application that *)
(* holds the credentials.  The hook's effect runs when athleteId or apiKey *)
(* changes and, when both are set, starts a sync; a sync awaits the three  *)
(* parallel fetches, then the events fetch, then stores its result.  The   *)
(* effect has no cleanup and a sync does not look at the credentials       *)
(* again, so every sync started runs to its end.  What a sync stores is    *)
(* kept by the athlete whose data it is.                                   *)
(***************************************************************************)
Credentials ==
    { [athleteId |-> "i111", apiKey |-> "key1"],
      [athleteId |-> "i222", apiKey |-> "key2"] }

\* import.meta.env.INTERVALS_ATHLETE_ID and INTERVALS_API_KEY, when set
DevCredentials == [athleteId |-> "i111", apiKey |-> "key1"]

\* the syncs followed in one behaviour
MaxSyncs == 3

\* a sync as fetchAllData is called: the athleteId of its closure
StartSync(athleteId) == [athleteId |-> athleteId, at |-> "fetching"]

\* useIntervalsData(auth?.athleteId || '', auth?.apiKey || '')
HookArgs(a) ==
    IF a = NULL THEN <<"", "">> ELSE <<a.athleteId, a.apiKey>>

\* the effect of the hook after setAuth(next): it runs when a dependency
\* changed and calls fetchAllData when both are set
EffectAfter(next) ==
    IF HookArgs(next) # HookArgs(auth) /\ next # NULL
    THEN Append(syncs, StartSync(next.athleteId))
    ELSE syncs

\* the application mounted and its first effect run: the development
\* credentials, or those saved in the session, or none
SyncInit ==
    /\ dev \in BOOLEAN
    /\ auth \in (IF dev THEN {DevCredentials} ELSE {NULL} \cup Credentials)
    /\ data = InitialData
    /\ syncs = IF auth = NULL THEN <<>> ELSE <<StartSync(auth.athleteId)>>
    /\ NoCall
    /\ NoWebhook
    /\ TimersMounted
    /\ StaticsLoaded

\* AuthGate's onLogin
onLogin ==
    /\ auth = NULL
    /\ Len(syncs) < MaxSyncs
    /\ \E creds \in Credentials :
         /\ auth' = creds
         /\ syncs' = EffectAfter(creds)
    /\ UNCHANGED <<dev, data, OutsideSync>>

handleLogout ==
    /\ auth # NULL
    /\ LET next == IF dev THEN DevCredentials ELSE NULL
       IN  /\ auth' = next
           /\ syncs' = EffectAfter(next)
    /\ UNCHANGED <<dev, data, OutsideSync>>

\* the three parallel fetches of sync i settle: on to the events fetch, or
\* the catch block when a fetch rejects or the activities are refused
ParallelFetched(i) ==
    /\ syncs[i].at = "fetching"
    /\ \E ok \in BOOLEAN :
         IF ok
         THEN /\ syncs' = [syncs EXCEPT ![i].at = "events"]
              /\ UNCHANGED data
         ELSE /\ syncs' = [syncs EXCEPT ![i].at = "settled"]
              /\ data' = [data EXCEPT !.loading = FALSE,
                                      !.error = [message |-> "sync failed"]]
    /\ UNCHANGED <<dev, auth, OutsideSync>>

\* the events fetch of sync i settles, whatever its outcome: setData({...})
EventsFetched(i) ==
    /\ syncs[i].at = "events"
    /\ syncs' = [syncs EXCEPT ![i].at = "settled"]
    /\ data' = [of |-> syncs[i].athleteId, loading |-> FALSE, error |-> NULL]
    /\ UNCHANGED <<dev, auth, OutsideSync>>

SyncNext ==
    \/ onLogin
    \/ handleLogout
    \/ \E i \in 1..Len(syncs) : ParallelFetched(i)
    \/ \E i \in 1..Len(syncs) : EventsFetched(i)

SyncSpec == SyncInit /\ [][SyncNext]_vars

Ref(root, index) == [root |-> root, index |-> index]

\* the calls followed in one behaviour, and the writes
MaxCalls == 3

MaxMutations == 2

HeapDays == {7, 40}

\* a calendar whose nearest race is within its taper, and one whose nearest
\* race is not
HeapCalendars ==
    { <<RaceEvent(1, 100, 7), RaceEvent(2, 200, 40)>>,
      <<RaceEvent(1, 100, 40), RaceEvent(2, 200, 60)>> }

HeapTSBs == {50, -150, -300}

HeapInit ==
    /\ StaticsLoaded
    /\ NoCall
    /\ NoWebhook
    /\ TimersMounted
    /\ SignedOut

Called(name, inputs, value, refs) ==
    /\ results' = Append(results, [op |-> name, inputs |-> inputs,
                                   value |-> value])
    /\ held' = held \cup refs
    /\ UNCHANGED <<statics, mutations, OutsideHeap>>

\* SprintRacePlanner.getPhase(daysUntil): the sessions are a new array
CallGetPhase ==
    /\ Len(results) < MaxCalls
    /\ \E daysUntil \in HeapDays :
         Called("getPhase", <<daysUntil>>, getPhase(daysUntil),
                {Ref("copy", 0)})

\* SprintRacePlanner.buildMultiRacePlans(races, bestVmax, age)
CallBuildMultiRacePlans ==
    /\ Len(results) < MaxCalls
    /\ \E races \in HeapCalendars :
         Called("buildMultiRacePlans", <<races, 10000, 45>>,
                buildMultiRacePlansIn(statics, races, 10000, 45),
                {IF index > 1 /\ races[1].daysUntil <= 14
                 THEN Ref("DEFERRED_PHASE.sessions", 0)
                 ELSE Ref("copy", 0) : index \in 1..Len(races)})

\* StrengthPeriodization.getPrescription(tsb): a new array of the static
\* Exercise objects
CallGetPrescription ==
    /\ Len(results) < MaxCalls
    /\ \E tsb \in HeapTSBs :
         LET rx == getPrescriptionIn(statics, tsb)
         IN  Called("getPrescription", <<tsb>>, rx,
                    {Ref(rx.zone, i) : i \in 1..Len(rx.exercises)})

\* sessions.push(...) through a held reference
PushSession ==
    /\ mutations < MaxMutations
    /\ \E ref \in held :
         /\ ref.root \in {"copy", "DEFERRED_PHASE.sessions"}
         /\ statics' =
               IF ref.root = "DEFERRED_PHASE.sessions"
               THEN [statics EXCEPT
                       !.deferredSessions = Append(@, <<"Extra session">>)]
               ELSE statics
    /\ mutations' = mutations + 1
    /\ UNCHANGED <<held, results, OutsideHeap>>

\* exercise.sets = 9 through a held reference
SetExerciseSets ==
    /\ mutations < MaxMutations
    /\ \E ref \in held :
         /\ ref.root \in {"fresh", "tired", "fatigued"}
         /\ statics' =
               [statics EXCEPT !.exercises[ref.root][ref.index].sets = 9]
    /\ mutations' = mutations + 1
    /\ UNCHANGED <<held, results, OutsideHeap>>

HeapNext ==
    \/ CallGetPhase
    \/ CallBuildMultiRacePlans
    \/ CallGetPrescription
    \/ PushSession
    \/ SetExerciseSets

HeapSpec == HeapInit /\ [][HeapNext]_vars

\* C24: the result of a call depends only on its arguments: whatever the
\* caller did to the objects and lists it was returned, two calls of the same
\* operation with the same inputs return the same result.
C24_SameInputsSameResult ==
    \A i, j \in 1..Len(results) :
        (results[i].op = results[j].op /\ results[i].inputs = results[j].inputs)
            => results[i].value = results[j].value

====
